---- MODULE Spec2Model ----
(***************************************************************************)
(* moauthd: the application registry, the token store and the /authorize   *)
(* and /token endpoint handlers, as a state machine of worker threads      *)
(* that share the server object.                                           *)
(***************************************************************************)
EXTENDS Integers, Sequences, FiniteSets, TLC

\* ------------------------------------------------------------ bounds
MaxApps == 3          \* AddApplication calls explored by SpecReg
MaxTokens == 3        \* tokens ever created (caps server->num_tokens)
MaxRequests == 3      \* requests read by all workers together
MaxTime == 1          \* last clock value
GrantLife == 1        \* server->max_grant_life, in clock ticks
TokenLife == 2        \* server->max_token_life, in clock ticks
MaxHostLen == 4       \* longest Host: value explored by SpecHost
MaxPathLen == 4       \* longest request target explored by SpecPath
MaxLifeLen == 3       \* longest MaxGrantLife/MaxTokenLife value explored by SpecLife
MaxRuns == 4          \* starts of the server process explored by SpecState
MaxResources == 2     \* Resource lines of the configuration file explored by SpecScopes
MaxClients == 4       \* connections made to the listening sockets

\* ------------------------------------------------------------ values
NULL == "<null>"      \* a NULL char pointer
NoRef == 0            \* a NULL token or application pointer

Workers == {"w1", "w2"}

AppA == "app1"
AppB == "app2"
UriA == "https://app/cb"
UriB == "https://app2/cb?x=1"
ClientIds == {AppA, AppB}
Uris == {UriA, UriB}

\* strcmp() order of the client identifiers used
IdOrder == <<"app0", "app1", "app2">>

\* The Application lines of the configuration file, in file order
ConfigApps == << [client_id |-> AppA, redirect_uri |-> UriA],
                 [client_id |-> AppB, redirect_uri |-> UriB] >>

VARIABLES
  applications,   \* server->applications: entries in array order
  regOp,          \* the last registry call and what it returned
  tokens,         \* every token object ever allocated, by id (memory contents)
  live,           \* ids of the tokens in server->tokens
  now,            \* time(NULL)
  crashed,        \* the process took a fatal signal
  nreq,           \* requests read so far
  pc,             \* each worker's position
  req,            \* each worker's request
  loc,            \* each worker's locals: app, grant_token, access_token/token
  resp,           \* each worker's response
  consumed,       \* grant ids whose exchange was answered 200
  authCalls,      \* calls of moauthdAuthenticateUser made for the current request
  server,         \* the server's configuration: name, port, options, introspect_group
  client,         \* each connection's identity: remote_user, remote_uid, ...
  disk,           \* the state file, its ".N" and ".O" neighbours: their contents
  boot,           \* moauthdCreateServer: its position and the line it read
  moauth          \* moauthConnect in a client program: its position and locals

\* What the request handlers never touch
others == << disk, boot, moauth >>

vars == << applications, regOp, tokens, live, now, crashed, nreq, pc, req, loc,
           resp, consumed, authCalls, server, client, disk, boot, moauth >>

\* ------------------------------------------------------------ startup values
NoKey == 0            \* server->private_key is NULL
NoMetadata == <<>>    \* server->metadata before it is generated
NoFile == 0 - 1       \* a path with no file (ENOENT)

Truncated == 0        \* a file whose PrivateKey line is missing or cut short

\* No state file, no ".N" file, no ".O" file
NoDisk == [state |-> NoFile, new |-> NoFile, old |-> NoFile]

\* moauthdCreateServer has returned the server object
Serving == [pc |-> "serving", directive |-> "", value |-> <<>>, seconds |-> 0,
            made |-> 0, runs |-> 0, loop |-> "poll", pending |-> 0,
            hello |-> FALSE, num_clients |-> 0, threads |-> 0]

\* A missing message body, and metadata that was not imported
NoBody == [json |-> FALSE, authorization_endpoint |-> NULL, token_endpoint |-> NULL,
           introspection_endpoint |-> NULL, registration_endpoint |-> NULL,
           text |-> FALSE]

\* The endpoint pointers of a moauth_t after calloc()
NoEndpoints == [authorization_endpoint |-> NULL, token_endpoint |-> NULL,
                introspection_endpoint |-> NULL, registration_endpoint |-> NULL]

\* No client program has called moauthConnect
NoConnect == [pc |-> "idle", oauth_uri |-> <<>>, resource |-> NULL,
              requests |-> <<>>, yields |-> <<>>, content_type |-> NULL,
              body |-> NoBody, metadata |-> NoBody, server |-> NoEndpoints,
              connection |-> FALSE, code_verifier |-> NULL, code_challenge |-> NULL,
              spawned |-> FALSE, waited |-> 0, estatus |-> 0, status |-> 0,
              error |-> ""]

\* ------------------------------------------------------------ registry
Rank(s) == CHOOSE i \in 1..Len(IdOrder) : IdOrder[i] = s

strcmp(a, b) == Rank(a) - Rank(b)

compare_applications(a, b) == strcmp(a.client_id, b.client_id)

\* cupsArrayFind: the first element that compares equal to the key, or none
cupsArrayFind(arr, key) ==
  LET hits == { i \in 1..Len(arr) : compare_applications(key, arr[i]) = 0 }
  IN  IF hits = {} THEN NoRef
      ELSE arr[CHOOSE i \in hits : \A j \in hits : i <= j].id

\* cupsArrayAdd: a copy of the element goes after the last element that does
\* not compare greater, so equal elements stay in insertion order
cupsArrayAdd(arr, e) ==
  LET before == { i \in 1..Len(arr) : compare_applications(arr[i], e) <= 0 }
      n      == Cardinality(before)
      copy   == [id |-> Len(arr) + 1, client_id |-> e.client_id,
                 redirect_uri |-> e.redirect_uri]
  IN  SubSeq(arr, 1, n) \o <<copy>> \o SubSeq(arr, n + 1, Len(arr))

moauthdFindApplication(arr, client_id, redirect_uri) ==
  IF redirect_uri # NULL
    THEN cupsArrayFind(arr, [client_id |-> client_id, redirect_uri |-> redirect_uri])
    ELSE LET hits == { i \in 1..Len(arr) : arr[i].client_id = client_id }
         IN  IF hits = {} THEN NoRef
             ELSE arr[CHOOSE i \in hits : \A j \in hits : i <= j].id

\* The entry an application pointer refers to
AppOf(arr, ref) == CHOOSE a \in { arr[i] : i \in 1..Len(arr) } : a.id = ref

RECURSIVE LoadApps(_, _)
LoadApps(arr, lines) ==
  IF lines = <<>> THEN arr
  ELSE LoadApps(cupsArrayAdd(arr, Head(lines)), Tail(lines))

\* ------------------------------------------------------------ registry calls
NoOp == [op |-> "none", client_id |-> NULL, redirect_uri |-> NULL, ret |-> NoRef,
         before |-> <<>>]

\* moauthdAddApplication: add a copy, then return what cupsArrayFind finds
moauthdAddApplication(client_id, redirect_uri) ==
  /\ Len(applications) < MaxApps
  /\ LET temp  == [client_id |-> client_id, redirect_uri |-> redirect_uri]
         added == cupsArrayAdd(applications, temp)
     IN  /\ applications' = added
         /\ regOp' = [op |-> "add", client_id |-> client_id,
                      redirect_uri |-> redirect_uri,
                      ret |-> cupsArrayFind(added, temp), before |-> applications]
  /\ UNCHANGED others
  /\ UNCHANGED << tokens, live, now, crashed, nreq, pc, req, loc, resp, consumed,
                  authCalls >>
  /\ UNCHANGED << server, client >>

FindApplicationCall(client_id, redirect_uri) ==
  /\ regOp' = [op |-> "find", client_id |-> client_id, redirect_uri |-> redirect_uri,
               ret |-> moauthdFindApplication(applications, client_id, redirect_uri),
               before |-> applications]
  /\ UNCHANGED others
  /\ UNCHANGED << applications, tokens, live, now, crashed, nreq, pc, req, loc, resp,
                  consumed, authCalls >>
  /\ UNCHANGED << server, client >>

\* ------------------------------------------------------------ authenticator
Alice == "alice"
GoodPw == "secret"
BadPw == "wrong"

\* moauthdAuthenticateUser: the Authenticator's verdict on a username/password
moauthdAuthenticateUser(username, password) ==
  username = Alice /\ password = GoodPw

\* ------------------------------------------------------------ PKCE
V1 == "dBjftJeZ4CVP"
V2 == "otherVerifier"

\* cupsHashData("sha2-256") followed by httpEncode64_2, as a table
S256(verifier) ==
  CASE verifier = V1 -> "E9Melhoa2Owv="
    [] verifier = V2 -> "pmWkWSBCL51B="
    [] OTHER -> "47DEQpj8HBSa="

\* do_token's code_verifier check of a grant's challenge
ChallengeOk(challenge, verifier) ==
  \/ challenge = NULL
  \/ verifier # NULL /\ S256(verifier) = challenge

\* ------------------------------------------------------------ token store
Grant == "grant"
Access == "access"

\* moauthdCreateToken: the new token object; its id is the next unused one
NewToken(type, application, user, scopes) ==
  [type |-> type, application |-> application, user |-> user,
   scopes |-> IF scopes = NULL THEN "private shared" ELSE scopes,
   challenge |-> NULL, created |-> now,
   expires |-> now + (IF type = Grant THEN server.max_grant_life
                                        ELSE server.max_token_life)]

\* moauthdFindToken: the token with that id in server->tokens, or NULL
moauthdFindToken(code) == IF code \in live THEN code ELSE NoRef

\* What a read through a token pointer can see: the token, or, once the token
\* was freed, its stale memory or the token that reuses the memory
TokenView(ref) ==
  IF ref \in live THEN { tokens[ref] }
  ELSE { tokens[ref] } \cup { tokens[i] : i \in live }

\* moauthdDeleteToken: server->tokens after the call. Removing through a pointer
\* to a freed token finds nothing, or finds the token that reuses the memory
AfterDelete(ref) ==
  IF ref \in live THEN { live \ {ref} }
  ELSE { live } \cup { live \ {i} : i \in live }

\* ------------------------------------------------------------ connection
\* Host: header values are character sequences over HostChars
ServerName == <<"a">>
DefaultPort == 443    \* the port of a Host: value that names none
AltPort == 4          \* a configured port other than the default
HostChars == {"a", "A", ".", ":", "4", "x"}
GoodHost == ServerName

\* strrchr(): the index of the last ch in s, 0 when there is none
strrchr(s, ch) ==
  LET hits == { i \in 1..Len(s) : s[i] = ch }
  IN  IF hits = {} THEN 0 ELSE CHOOSE i \in hits : \A j \in hits : j <= i

IsDigit(c) == c \in {"0", "1", "2", "3", "4", "5", "6", "7", "8", "9"}

DigitVal(c) ==
  CASE c = "0" -> 0 [] c = "1" -> 1 [] c = "2" -> 2 [] c = "3" -> 3 [] c = "4" -> 4
    [] c = "5" -> 5 [] c = "6" -> 6 [] c = "7" -> 7 [] c = "8" -> 8 [] OTHER -> 9

\* atoi(): the value of the leading decimal digits, 0 when there are none
RECURSIVE atoiFrom(_, _)
atoiFrom(s, acc) ==
  IF s = <<>> \/ ~IsDigit(Head(s)) THEN acc
  ELSE atoiFrom(Tail(s), acc * 10 + DigitVal(Head(s)))

atoi(s) == atoiFrom(s, 0)

tolower(c) == IF c = "A" THEN "a" ELSE IF c = "M" THEN "m" ELSE c

\* strcasecmp() = 0
SameNoCase(s, t) ==
  Len(s) = Len(t) /\ \A i \in 1..Len(s) : tolower(s[i]) = tolower(t[i])

\* moauthdRunClient: the Host: value split at its last ':', one trailing dot
\* stripped, then compared with server->name and server->port
HostName(host) ==
  LET colon == strrchr(host, ":")
      end   == IF colon # 0 THEN colon - 1 ELSE Len(host)
  IN  SubSeq(host, 1, IF end > 0 /\ host[end] = "." THEN end - 1 ELSE end)

HostPort(host) ==
  LET colon == strrchr(host, ":")
  IN  IF colon # 0 THEN atoi(SubSeq(host, colon + 1, Len(host))) ELSE DefaultPort

HostOk(host) ==
  SameNoCase(HostName(host), server.name) /\ HostPort(host) = server.port

\* path_info, the request target, as a character sequence over PathChars. path
\* names the endpoint or resource that a target without dots or query selects;
\* the requests for the endpoints carry such a target, PlainPath
PathChars == {"/", ".", "a", "?"}
PlainPath == <<"/">>

\* strchr(path_info, '?') and the '\0' written there: the target up to its
\* first '?'
ChopQuery(p) ==
  LET marks == { i \in 1..Len(p) : p[i] = "?" }
  IN  IF marks = {} THEN p
      ELSE SubSeq(p, 1, (CHOOSE i \in marks : \A j \in marks : i <= j) - 1)

\* strstr(s, t) != NULL
strstr(s, t) ==
  \E i \in 1..(Len(s) - Len(t) + 1) : SubSeq(s, i, i + Len(t) - 1) = t

\* moauthdRunClient: the test of the request URI, after the query was chopped
\* off; "*" is for OPTIONS only
PathOk(p, method) ==
  LET path == ChopQuery(p)
  IN  ~ /\ (path = <<>> \/ path[1] # "/" \/ strstr(path, <<"/", ".", ".", "/">>))
        /\ (path # <<"*">> \/ method # "OPTIONS")

\* The account database: getpwnam() and getgrouplist() of the one account
NoUid == -1
NoGroup == -1
AliceUid == 1000
AliceGid == 100
OtherGid == 200

\* server->options, server->introspect_group, server->name, server->port
DefaultServer == [options |-> {}, introspect_group |-> NoGroup,
                  name |-> ServerName, port |-> DefaultPort,
                  max_grant_life |-> GrantLife, max_token_life |-> TokenLife,
                  private_key |-> NoKey, resources |-> <<>>, metadata |-> NoMetadata]

\* A connection's identity fields after calloc()
NoClient == [remote_user |-> "", remote_uid |-> 0, remote_token |-> NoRef,
             remote_groups |-> {}]

\* Authorization: header values. An empty scheme is a missing or empty header
NoAuth == [scheme |-> "", credentials |-> "", id |-> NoRef]

Basic(credentials) == [scheme |-> "Basic", credentials |-> credentials, id |-> NoRef]

Bearer(id) == [scheme |-> "Bearer", credentials |-> "", id |-> id]

Digest == [scheme |-> "Digest", credentials |-> "", id |-> NoRef]

\* httpDecode64_2 and the split at the first ':', as a table: <<username,
\* password>>, or <<text>> when the decoded text has no ':'
httpDecode64_2(credentials) ==
  CASE credentials = "YWxpY2U6c2VjcmV0" -> <<"alice", "secret">>
    [] credentials = "YWxpY2U6d3Jvbmc=" -> <<"alice", "wrong">>
    [] credentials = "Ym9iOnNlY3JldA==" -> <<"bob", "secret">>
    [] OTHER -> <<"alice">>

\* ------------------------------------------------------------ requests
NoReq == [method |-> "NONE", path |-> NULL, client_id |-> NULL,
          redirect_uri |-> NULL, response_type |-> NULL, scope |-> NULL,
          state |-> NULL, challenge |-> NULL, challenge_method |-> NULL,
          username |-> NULL, password |-> NULL, grant_type |-> NULL,
          code |-> NoRef, verifier |-> NULL, host |-> GoodHost,
          authorization |-> NoAuth, token |-> NoRef, expect |-> "",
          path_info |-> PlainPath, request_line |-> "OK", headers |-> TRUE]

UnknownClient == "app0"
BogusCode == -1

\* GET /authorize: every combination of the parameters do_authorize reads
AuthorizeGetReqs ==
  { [NoReq EXCEPT !.method = "GET", !.path = "/authorize", !.client_id = c,
                  !.response_type = t, !.challenge_method = m, !.redirect_uri = u]
      : c \in {NULL, AppA, UnknownClient}, t \in {NULL, "code", "token"},
        m \in {NULL, "S256", "plain"}, u \in {NULL, UriB} }

AuthorizePostBase ==
  [NoReq EXCEPT !.method = "POST", !.path = "/authorize", !.client_id = AppA,
                !.redirect_uri = UriA, !.response_type = "code",
                !.username = Alice, !.password = GoodPw, !.state = "xyz"]

\* POST /authorize: rejected parameters, bad credentials, good credentials
AuthorizePostReqs ==
  { [AuthorizePostBase EXCEPT !.client_id = NULL],
    [AuthorizePostBase EXCEPT !.response_type = NULL],
    [AuthorizePostBase EXCEPT !.response_type = "token"],
    [AuthorizePostBase EXCEPT !.client_id = UnknownClient],
    [AuthorizePostBase EXCEPT !.redirect_uri = NULL],
    [AuthorizePostBase EXCEPT !.client_id = AppB, !.redirect_uri = UriB] }
  \cup
  { [AuthorizePostBase EXCEPT !.redirect_uri = u, !.state = s,
                              !.username = c[1], !.password = c[2]]
      : u \in Uris, s \in {NULL, "xyz"},
        c \in { <<Alice, BadPw>>, <<NULL, GoodPw>>, <<Alice, NULL>> } }
  \cup
  { [AuthorizePostBase EXCEPT !.redirect_uri = u, !.state = s, !.challenge = ch,
                              !.scope = sc]
      : u \in Uris, s \in {NULL, "xyz"}, ch \in {NULL, S256(V1)},
        sc \in {NULL, "private"} }

\* POST /authorize requests of the token flow: the ones that can lead to a grant
GrantReqs ==
  { [AuthorizePostBase EXCEPT !.challenge = ch] : ch \in {NULL, S256(V1)} }

TokenBase ==
  [NoReq EXCEPT !.method = "POST", !.path = "/token",
                !.grant_type = "authorization_code", !.client_id = AppA]

\* POST /token with grant_type=authorization_code. Token ids are unguessable: a
\* request carries an id already issued, or a string that is no token's id
ExchangeReqs ==
  { [TokenBase EXCEPT !.code = k, !.verifier = v]
      : k \in 1..Len(tokens), v \in {NULL, V1, V2} }
  \cup
  { [TokenBase EXCEPT !.code = BogusCode] }
  \cup
  { [TokenBase EXCEPT !.client_id = AppB, !.code = k] : k \in 1..Len(tokens) }
  \cup
  { [TokenBase EXCEPT !.redirect_uri = UriA, !.code = k, !.verifier = V1]
      : k \in 1..Len(tokens) }

\* POST /token that is rejected before any lookup, and the password grant
OtherTokenReqs ==
  { [TokenBase EXCEPT !.grant_type = NULL],
    [TokenBase EXCEPT !.grant_type = "refresh_token"],
    [TokenBase EXCEPT !.client_id = NULL, !.code = BogusCode],
    [TokenBase EXCEPT !.code = NoRef],
    [TokenBase EXCEPT !.client_id = UnknownClient, !.code = BogusCode] }
  \cup
  { [TokenBase EXCEPT !.grant_type = "password", !.client_id = NULL,
                      !.username = c[1], !.password = c[2]]
      : c \in { <<Alice, GoodPw>>, <<Alice, BadPw>>, <<NULL, NULL>>,
                <<NULL, GoodPw>>, <<Alice, NULL>> } }

\* Authorization: Basic values: right password, wrong password, no ':'
GoodCred == "YWxpY2U6c2VjcmV0"
BadCred == "YWxpY2U6d3Jvbmc="
NoColonCred == "YWxpY2U="

\* Requests that put a token in the store: a grant of app1, and a password-grant
\* access token (no application)
TokenMakerReqs ==
  { AuthorizePostBase,
    [TokenBase EXCEPT !.grant_type = "password", !.client_id = NULL,
                      !.username = Alice, !.password = GoodPw] }

\* POST /introspect for an issued token id by no caller, by a Bearer caller
\* presenting that same token, or by a Basic caller; the Basic caller also sends
\* no token variable and a string that is no token's id
IntrospectBase == [NoReq EXCEPT !.method = "POST", !.path = "/introspect"]

IntrospectReqs ==
  { [IntrospectBase EXCEPT !.authorization = a, !.token = t]
      : a \in {NoAuth}, t \in 1..Len(tokens) }
  \cup
  { [IntrospectBase EXCEPT !.authorization = Bearer(t), !.token = t]
      : t \in 1..Len(tokens) }
  \cup
  { [IntrospectBase EXCEPT !.authorization = Basic(GoodCred), !.token = t]
      : t \in 1..Len(tokens) \cup {NoRef, BogusCode} }

\* GET of a public resource and POST /introspect with no Authorization: value,
\* with Basic ones and with an unsupported scheme
SchemeReqs ==
  { [r EXCEPT !.authorization = a]
      : r \in { [NoReq EXCEPT !.method = "GET", !.path = "/"],
                [IntrospectBase EXCEPT !.token = BogusCode] },
        a \in {NoAuth, Basic(GoodCred), Basic(BadCred), Basic(NoColonCred), Digest} }

\* The Authorization: values of the header requests: none, Basic with the right
\* password, a wrong one and no ':', an unsupported scheme, and Bearer with an
\* issued token id or a string that is no token's id
AuthorizationValues ==
  {NoAuth, Basic(GoodCred), Basic(BadCred), Basic(NoColonCred), Digest,
   Bearer(BogusCode)} \cup { Bearer(k) : k \in 1..Len(tokens) }

\* GET of a public resource, POST /authorize and POST /token, each with every
\* Authorization: value
HeaderReqs ==
  { [r EXCEPT !.authorization = a]
      : r \in { [NoReq EXCEPT !.method = "GET", !.path = "/"] } \cup TokenMakerReqs,
        a \in AuthorizationValues }

\* Every Host: value of at most MaxHostLen characters
Hosts == UNION { [1..n -> HostChars] : n \in 0..MaxHostLen }

\* GET of a public resource with each Host: value
HostReqs == { [NoReq EXCEPT !.method = "GET", !.path = "/", !.host = h] : h \in Hosts }

\* The requests of a connection whose client sends the right Host: value
PlainReqs == { [NoReq EXCEPT !.method = "GET", !.path = "/"] }

\* A Host: value that is not the server's
BadHost == <<"x">>

\* POST /token (password grant), POST /introspect and GET of a resource, with no
\* Expect: value, 100-continue and another expectation, with and without an
\* accepted Authorization: and Host: value
ExpectReqs ==
  { [r EXCEPT !.expect = e, !.authorization = a, !.host = h]
      : r \in { [TokenBase EXCEPT !.grant_type = "password", !.client_id = NULL,
                                   !.username = Alice, !.password = GoodPw],
                [IntrospectBase EXCEPT !.token = BogusCode],
                [NoReq EXCEPT !.method = "GET", !.path = "/"] },
        e \in {"", "100-continue", "200-ok"},
        a \in {NoAuth, Basic(GoodCred), Basic(BadCred)},
        h \in {GoodHost, BadHost} }

\* Every request target of at most MaxPathLen characters
Paths == UNION { [1..n -> PathChars] : n \in 0..MaxPathLen }

\* GET with each request target
PathReqs ==
  { [NoReq EXCEPT !.method = "GET", !.path = "/", !.path_info = p] : p \in Paths }

TokenFlowReqs == GrantReqs \cup ExchangeReqs

\* What moauthdRunClient can find wrong with a request before it looks at the
\* Authorization: value, and "" for a request that passes
PreflightFaults == {"", "method", "version", "uri", "headers", "host", "error"}

Faulty(r, fault) ==
  CASE fault = "method"  -> [r EXCEPT !.request_line = "UNKNOWN_METHOD"]
    [] fault = "version" -> [r EXCEPT !.request_line = "UNKNOWN_VERSION"]
    [] fault = "error"   -> [r EXCEPT !.request_line = "ERROR"]
    [] fault = "uri"     -> [r EXCEPT !.path_info = <<"a">>]
    [] fault = "headers" -> [r EXCEPT !.headers = FALSE]
    [] fault = "host"    -> [r EXCEPT !.host = BadHost]
    [] OTHER             -> r

\* A password grant, and GET of a resource with Basic credentials or an issued
\* Bearer token, sound or with one fault
PreflightReqs ==
  { [TokenBase EXCEPT !.grant_type = "password", !.client_id = NULL,
                      !.username = Alice, !.password = GoodPw] }
  \cup
  { Faulty([NoReq EXCEPT !.method = "GET", !.path = "/", !.authorization = a], f)
      : a \in {Basic(GoodCred)} \cup { Bearer(t) : t \in 1..Len(tokens) },
        f \in PreflightFaults }

\* ------------------------------------------------------------ responses
\* The JSON object of an /introspect answer
NoJSON == [active |-> FALSE, scope |-> NULL, client_id |-> NULL, username |-> NULL,
           token_type |-> NULL, exp |-> 0, iat |-> 0]

NoResp == [status |-> 0, kind |-> "none", uri |-> NULL, prefix |-> NULL,
           code |-> NoRef, error |-> NULL, state |-> NULL, access_token |-> NoRef,
           json |-> NoJSON, interim |-> 0]

Status(code) == [NoResp EXCEPT !.status = code]

NoLoc == [app |-> NoRef, grant |-> NoRef, token |-> NoRef, uri |-> NULL,
          prefix |-> NULL, bearer |-> NoRef]

\* moauthdRespondClient: the worker has answered its request
Respond(w, r) ==
  /\ resp' = [resp EXCEPT ![w] = [r EXCEPT !.interim = resp[w].interim]]
  /\ pc' = [pc EXCEPT ![w] = "responded"]

\* A fatal signal: the process is gone
Crash(w) ==
  /\ crashed' = TRUE
  /\ pc' = [pc EXCEPT ![w] = "crashed"]

\* ------------------------------------------------------------ worker loop
\* moauthdRunClient: the switch on the method and the path
Dispatch(r) ==
  CASE r.path = "/authorize" /\ r.method = "GET"  -> "authorize_get"
    [] r.path = "/authorize" /\ r.method = "POST" -> "authorize_post"
    [] r.path = "/introspect" /\ r.method = "POST" -> "introspect"
    [] r.method = "GET" -> "get_file"
    [] OTHER -> "token"

EntryNoExpect(r) == Dispatch(r)

\* moauthdRunClient after the Authorization: value: the Expect: value of a POST
\* first, then the switch
Entry(r) ==
  IF r.method = "POST" /\ r.expect # "" THEN "expect" ELSE Dispatch(r)

\* The checks without the one of the Host: value
PreflightNoHost(r) ==
  IF r.request_line = "ERROR" THEN "break"
  ELSE IF r.request_line \in {"UNKNOWN_METHOD", "UNKNOWN_VERSION"} THEN "bad"
  ELSE IF ~PathOk(r.path_info, r.method) THEN "bad"
  ELSE IF ~r.headers THEN "bad"
  ELSE "ok"

\* moauthdRunClient: the checks made before the Authorization: value is looked
\* at. request_line is what httpReadRequest returned and headers whether
\* httpUpdate ended with HTTP_STATUS_OK
Preflight(r) ==
  IF r.request_line = "ERROR" THEN "break"
  ELSE IF r.request_line \in {"UNKNOWN_METHOD", "UNKNOWN_VERSION"} THEN "bad"
  ELSE IF ~PathOk(r.path_info, r.method) THEN "bad"
  ELSE IF ~r.headers THEN "bad"
  ELSE IF ~HostOk(r.host) THEN "bad"
  ELSE "ok"

\* moauthdRunClient: read the next request of the connection, check its request
\* line, its URI, its headers and its Host: value, clear remote_user and
\* remote_uid, and go on to the Authorization: value or, when there is none, to
\* the handler
ReadRequest(w, requests) ==
  /\ ~crashed
  /\ pc[w] = "wait"
  /\ nreq < MaxRequests
  /\ \E r \in requests :
       /\ req' = [req EXCEPT ![w] = r]
       /\ IF Preflight(r) = "break"
            THEN /\ pc' = [pc EXCEPT ![w] = "closing"]
                 /\ UNCHANGED << resp, client >>
          ELSE IF Preflight(r) = "bad"
            THEN /\ resp' = [resp EXCEPT ![w] = Status(400)]
                 /\ pc' = [pc EXCEPT ![w] = "closing"]
                 /\ UNCHANGED client
            ELSE /\ client' = [client EXCEPT ![w] = [@ EXCEPT !.remote_user = "",
                                                               !.remote_uid = NoUid]]
                 /\ pc' = [pc EXCEPT ![w] = IF r.authorization.scheme # ""
                                              THEN "authorization" ELSE Entry(r)]
                 /\ UNCHANGED resp
  /\ nreq' = nreq + 1
  /\ UNCHANGED others
  /\ UNCHANGED << applications, regOp, tokens, live, now, crashed, loc, consumed,
                  authCalls, server >>

\* httpGetExpect: 0 without an Expect: value, 100 for 100-continue, 417 for any
\* other value
httpGetExpect(r) ==
  CASE r.expect = "" -> 0 [] r.expect = "100-continue" -> 100 [] OTHER -> 417

\* moauthdRunClient, Expect: of a POST: the 100 or 417 header is sent, then the
\* switch; the connection is dropped when the header cannot be sent
Expect(w) ==
  /\ ~crashed
  /\ pc[w] = "expect"
  /\ \/ /\ resp' = [resp EXCEPT ![w] = [@ EXCEPT !.interim = httpGetExpect(req[w])]]
        /\ pc' = [pc EXCEPT ![w] = Dispatch(req[w])]
     \/ /\ pc' = [pc EXCEPT ![w] = "closing"]
        /\ UNCHANGED resp
  /\ UNCHANGED others
  /\ UNCHANGED << applications, regOp, tokens, live, now, crashed, nreq, req, loc,
                  consumed, authCalls, server, client >>

\* The handler has returned; the worker waits for the next request
Finish(w) ==
  /\ ~crashed
  /\ pc[w] = "responded"
  /\ pc' = [pc EXCEPT ![w] = "wait"]
  /\ req' = [req EXCEPT ![w] = NoReq]
  /\ resp' = [resp EXCEPT ![w] = NoResp]
  /\ loc' = [loc EXCEPT ![w] = NoLoc]
  /\ authCalls' = [authCalls EXCEPT ![w] = {}]
  /\ UNCHANGED others
  /\ UNCHANGED << applications, regOp, tokens, live, now, crashed, nreq, consumed,
                  server, client >>

\* moauthdRunClient left its loop: moauthdDeleteClient, and the thread serves
\* the next accepted connection (moauthdCreateClient)
Close(w) ==
  /\ ~crashed
  /\ pc[w] = "closing"
  /\ pc' = [pc EXCEPT ![w] = "wait"]
  /\ req' = [req EXCEPT ![w] = NoReq]
  /\ resp' = [resp EXCEPT ![w] = NoResp]
  /\ loc' = [loc EXCEPT ![w] = NoLoc]
  /\ authCalls' = [authCalls EXCEPT ![w] = {}]
  /\ client' = [client EXCEPT ![w] = NoClient]
  /\ UNCHANGED others
  /\ UNCHANGED << applications, regOp, tokens, live, now, crashed, nreq, consumed,
                  server >>

Tick ==
  /\ ~crashed
  /\ now < MaxTime
  /\ now' = now + 1
  /\ UNCHANGED others
  /\ UNCHANGED << applications, regOp, tokens, live, crashed, nreq, pc, req, loc,
                  resp, consumed, authCalls >>
  /\ UNCHANGED << server, client >>

\* ------------------------------------------------------------ /authorize
\* strchr(redirect_uri, '?')
HasQuery(uri) == uri = UriB

AuthorizeGetStatusNoMethodCheck(r) ==
  IF r.client_id = NULL \/ r.response_type = NULL \/ r.response_type # "code"
    THEN 400
  ELSE IF moauthdFindApplication(applications, r.client_id, r.redirect_uri) = NoRef
    THEN 400
  ELSE 200

\* do_authorize, GET: the status of the answer
AuthorizeGetStatus(r) ==
  IF \/ r.client_id = NULL \/ r.response_type = NULL \/ r.response_type # "code"
     \/ (r.challenge_method # NULL /\ r.challenge_method # "S256")
    THEN 400
  ELSE IF moauthdFindApplication(applications, r.client_id, r.redirect_uri) = NoRef
    THEN 400
  ELSE 200

\* do_authorize, GET: the login form carries the application's redirect_uri
AuthorizeGet(w) ==
  /\ ~crashed
  /\ pc[w] = "authorize_get"
  /\ LET r  == req[w]
         st == AuthorizeGetStatus(r)
     IN  IF st = 200
           THEN Respond(w, [Status(200) EXCEPT
                  !.kind = "form",
                  !.uri = AppOf(applications, moauthdFindApplication(applications,
                                  r.client_id, r.redirect_uri)).redirect_uri,
                  !.state = r.state])
           ELSE Respond(w, Status(st))
  /\ UNCHANGED others
  /\ UNCHANGED << applications, regOp, tokens, live, now, crashed, nreq, req, loc,
                  consumed, authCalls >>
  /\ UNCHANGED << server, client >>

Redirect(uri, prefix, kind, code, error, state) ==
  [NoResp EXCEPT !.status = 302, !.kind = kind, !.uri = uri, !.prefix = prefix,
                 !.code = code, !.error = error, !.state = state]

\* do_authorize, POST, after the application was found: the credentials
AuthorizeCredentials(w, app, uri, prefix) ==
  LET r == req[w]
  IN  IF r.username = NULL \/ r.password = NULL
        THEN /\ Respond(w, Redirect(uri, prefix, "error", NoRef, "access_denied",
                                    r.state))
             /\ UNCHANGED << loc, authCalls >>
      ELSE /\ authCalls' = [authCalls EXCEPT
                              ![w] = @ \cup { <<r.username, r.password>> }]
           /\ IF ~moauthdAuthenticateUser(r.username, r.password)
                THEN /\ Respond(w, Redirect(uri, prefix, "error", NoRef,
                                            "access_denied", r.state))
                     /\ UNCHANGED loc
                ELSE /\ pc' = [pc EXCEPT ![w] = "auth_create"]
                     /\ loc' = [loc EXCEPT ![w] = [@ EXCEPT !.app = app,
                                                    !.uri = uri, !.prefix = prefix]]
                     /\ UNCHANGED resp

\* do_authorize, POST: the parameters, the application, the credentials.
\* strchr() of a missing redirect_uri reads through a NULL pointer.
AuthorizePost(w) ==
  /\ ~crashed
  /\ pc[w] = "authorize_post"
  /\ LET r   == req[w]
         app == moauthdFindApplication(applications, r.client_id, r.redirect_uri)
     IN  IF r.client_id = NULL \/ r.response_type = NULL \/ r.response_type # "code"
           THEN Respond(w, Status(400)) /\ UNCHANGED << loc, authCalls, crashed >>
         ELSE IF app = NoRef
           THEN Respond(w, Status(400)) /\ UNCHANGED << loc, authCalls, crashed >>
         ELSE IF r.redirect_uri = NULL
           THEN \/ Crash(w) /\ UNCHANGED << loc, authCalls, resp >>
                \/ AuthorizeCredentials(w, app, "(null)", "?") /\ UNCHANGED crashed
         ELSE /\ AuthorizeCredentials(w, app, r.redirect_uri,
                                      IF HasQuery(r.redirect_uri) THEN "&" ELSE "?")
              /\ UNCHANGED crashed
  /\ UNCHANGED others
  /\ UNCHANGED << applications, regOp, tokens, live, now, nreq, req, consumed >>
  /\ UNCHANGED << server, client >>

\* do_authorize, POST: moauthdCreateToken of the grant (or its failure)
AuthorizeCreate(w) ==
  /\ ~crashed
  /\ pc[w] = "auth_create"
  /\ \/ /\ Len(tokens) < MaxTokens
        /\ tokens' = Append(tokens, NewToken(Grant, loc[w].app, req[w].username,
                                             req[w].scope))
        /\ live' = live \cup { Len(tokens) + 1 }
        /\ loc' = [loc EXCEPT ![w] = [@ EXCEPT !.token = Len(tokens) + 1]]
        /\ pc' = [pc EXCEPT ![w] = "auth_challenge"]
        /\ UNCHANGED resp
     \/ /\ Respond(w, Redirect(loc[w].uri, loc[w].prefix, "error", NoRef,
                               "server_error", req[w].state))
        /\ UNCHANGED << tokens, live, loc >>
  /\ UNCHANGED others
  /\ UNCHANGED << applications, regOp, now, crashed, nreq, req, consumed, authCalls >>
  /\ UNCHANGED << server, client >>

\* do_authorize, POST: token->challenge is set after the token is in the store,
\* through the pointer moauthdCreateToken returned; then the redirect
AuthorizeChallenge(w) ==
  /\ ~crashed
  /\ pc[w] = "auth_challenge"
  /\ LET t == loc[w].token
         targets == IF t \in live THEN {t} ELSE {t} \cup live
     IN  \/ /\ \E x \in targets :
                 /\ tokens' = IF req[w].challenge # NULL
                                THEN [tokens EXCEPT ![x].challenge = req[w].challenge]
                                ELSE tokens
                 /\ Respond(w, Redirect(loc[w].uri, loc[w].prefix, "code", x, NULL,
                                        req[w].state))
            /\ UNCHANGED crashed
         \/ /\ t \notin live
            /\ Crash(w)
            /\ UNCHANGED << tokens, resp >>
  /\ UNCHANGED others
  /\ UNCHANGED << applications, regOp, live, now, nreq, req, loc, consumed, authCalls >>
  /\ UNCHANGED << server, client >>

\* ------------------------------------------------------------ /token
TokenJSON(id) == [Status(200) EXCEPT !.kind = "json", !.access_token = id]

\* do_token: the form variables; the password grant's authentication; for the
\* authorization_code grant moauthdFindApplication, then moauthdFindToken
Token(w) ==
  /\ ~crashed
  /\ pc[w] = "token"
  /\ LET r   == req[w]
         app == moauthdFindApplication(applications, r.client_id, r.redirect_uri)
         tok == moauthdFindToken(r.code)
     IN  IF r.grant_type = NULL \/ r.grant_type \notin {"authorization_code", "password"}
           THEN Respond(w, Status(400)) /\ UNCHANGED << loc, authCalls >>
         ELSE IF r.grant_type = "password" /\ r.username = NULL /\ r.password = NULL
           THEN Respond(w, Status(400)) /\ UNCHANGED << loc, authCalls >>
         ELSE IF r.grant_type # "password" /\ (r.client_id = NULL \/ r.code = NoRef)
           THEN Respond(w, Status(400)) /\ UNCHANGED << loc, authCalls >>
         ELSE IF r.grant_type = "password"
           THEN /\ authCalls' = [authCalls EXCEPT
                                   ![w] = @ \cup { <<r.username, r.password>> }]
                /\ IF ~moauthdAuthenticateUser(r.username, r.password)
                     THEN Respond(w, Status(400))
                     ELSE pc' = [pc EXCEPT ![w] = "tok_create_pw"] /\ UNCHANGED resp
                /\ UNCHANGED loc
         ELSE IF app = NoRef
           THEN Respond(w, Status(400)) /\ UNCHANGED << loc, authCalls >>
         ELSE IF tok = NoRef
           THEN Respond(w, Status(400)) /\ UNCHANGED << loc, authCalls >>
         ELSE /\ loc' = [loc EXCEPT ![w] = [@ EXCEPT !.app = app, !.grant = tok]]
              /\ pc' = [pc EXCEPT ![w] = "tok_check"]
              /\ UNCHANGED << resp, authCalls >>
  /\ UNCHANGED others
  /\ UNCHANGED << applications, regOp, tokens, live, now, crashed, nreq, req,
                  consumed >>
  /\ UNCHANGED << server, client >>

\* do_token, password grant: moauthdCreateToken; its NULL result is not checked
\* before access_token->token is read
TokenCreatePw(w) ==
  /\ ~crashed
  /\ pc[w] = "tok_create_pw"
  /\ \/ /\ Len(tokens) < MaxTokens
        /\ tokens' = Append(tokens, NewToken(Access, NoRef, req[w].username,
                                             req[w].scope))
        /\ live' = live \cup { Len(tokens) + 1 }
        /\ loc' = [loc EXCEPT ![w] = [@ EXCEPT !.token = Len(tokens) + 1]]
        /\ Respond(w, TokenJSON(Len(tokens) + 1))
        /\ UNCHANGED crashed
     \/ /\ Crash(w)
        /\ UNCHANGED << tokens, live, loc, resp >>
  /\ UNCHANGED others
  /\ UNCHANGED << applications, regOp, now, nreq, req, consumed, authCalls >>
  /\ UNCHANGED << server, client >>

\* do_token: the checks made through grant_token, with no lock held: the
\* application, the expiry, the code_verifier
TokenCheck(w) ==
  /\ ~crashed
  /\ pc[w] = "tok_check"
  /\ \/ /\ \E g \in TokenView(loc[w].grant) :
              IF g.application # loc[w].app
                THEN Respond(w, Status(400))
              ELSE IF g.expires <= now
                THEN pc' = [pc EXCEPT ![w] = "tok_expire"] /\ UNCHANGED resp
              ELSE IF ~ChallengeOk(g.challenge, req[w].verifier)
                THEN Respond(w, Status(400))
              ELSE pc' = [pc EXCEPT ![w] = "tok_create"] /\ UNCHANGED resp
        /\ UNCHANGED crashed
     \/ /\ loc[w].grant \notin live
        /\ Crash(w)
        /\ UNCHANGED resp
  /\ UNCHANGED others
  /\ UNCHANGED << applications, regOp, tokens, live, now, nreq, req, loc, consumed,
                  authCalls >>
  /\ UNCHANGED << server, client >>

\* do_token: moauthdDeleteToken of an expired grant, then 400
TokenExpire(w) ==
  /\ ~crashed
  /\ pc[w] = "tok_expire"
  /\ \/ /\ \E l \in AfterDelete(loc[w].grant) : live' = l
        /\ Respond(w, Status(400))
        /\ UNCHANGED crashed
     \/ /\ loc[w].grant \notin live
        /\ Crash(w)
        /\ UNCHANGED << live, resp >>
  /\ UNCHANGED others
  /\ UNCHANGED << applications, regOp, tokens, now, nreq, req, loc, consumed,
                  authCalls >>
  /\ UNCHANGED << server, client >>

\* do_token: moauthdCreateToken of the access token from grant_token's user and
\* scopes (or its failure)
TokenCreate(w) ==
  /\ ~crashed
  /\ pc[w] = "tok_create"
  /\ \/ /\ Len(tokens) < MaxTokens
        /\ \E g \in TokenView(loc[w].grant) :
              tokens' = Append(tokens, NewToken(Access, loc[w].app, g.user, g.scopes))
        /\ live' = live \cup { Len(tokens) + 1 }
        /\ loc' = [loc EXCEPT ![w] = [@ EXCEPT !.token = Len(tokens) + 1]]
        /\ pc' = [pc EXCEPT ![w] = "tok_delete"]
        /\ UNCHANGED << resp, crashed >>
     \/ /\ Respond(w, Status(400))
        /\ UNCHANGED << tokens, live, loc, crashed >>
     \/ /\ loc[w].grant \notin live
        /\ Crash(w)
        /\ UNCHANGED << tokens, live, loc, resp >>
  /\ UNCHANGED others
  /\ UNCHANGED << applications, regOp, now, nreq, req, consumed, authCalls >>
  /\ UNCHANGED << server, client >>

TokenDeleteSkipped(w) ==
  /\ ~crashed
  /\ pc[w] = "tok_delete"
  /\ Respond(w, TokenJSON(loc[w].token))
  /\ consumed' = consumed \cup { req[w].code }
  /\ UNCHANGED others
  /\ UNCHANGED << applications, regOp, tokens, live, now, crashed, nreq, req, loc,
                  authCalls >>
  /\ UNCHANGED << server, client >>

\* do_token: moauthdDeleteToken of the grant, then the 200 answer
TokenDelete(w) ==
  /\ ~crashed
  /\ pc[w] = "tok_delete"
  /\ \/ /\ \E l \in AfterDelete(loc[w].grant) : live' = l
        /\ Respond(w, TokenJSON(loc[w].token))
        /\ consumed' = consumed \cup { req[w].code }
        /\ UNCHANGED crashed
     \/ /\ loc[w].grant \notin live
        /\ Crash(w)
        /\ UNCHANGED << live, resp, consumed >>
  /\ UNCHANGED others
  /\ UNCHANGED << applications, regOp, tokens, now, nreq, req, loc, authCalls >>
  /\ UNCHANGED << server, client >>

\* ------------------------------------------------------------ Authorization:
\* getpwnam(): the uid of an account
UidOf(user) == IF user = Alice THEN AliceUid ELSE NoUid

\* getgrouplist(): the groups of an account
GroupsOf(user) == IF user = Alice THEN {AliceGid} ELSE {}

\* What getgrouplist() leaves in remote_groups: the account's groups, or none
\* when the call is taken to have failed (num_remote_groups = 0)
GroupLists(user) == { GroupsOf(user), {} }

\* moauthdRespondClient followed by break: the connection is closed
RespondClose(w, r) ==
  /\ resp' = [resp EXCEPT ![w] = [r EXCEPT !.interim = resp[w].interim]]
  /\ pc' = [pc EXCEPT ![w] = "closing"]

\* moauthdRunClient, "Basic ": decode, split, moauthdAuthenticateUser, getpwnam,
\* getgrouplist; then 401 when remote_user is still empty. server->options is
\* not read.
AuthorizationBasic(w) ==
  /\ ~crashed
  /\ pc[w] = "authorization"
  /\ req[w].authorization.scheme = "Basic"
  /\ LET cred == httpDecode64_2(req[w].authorization.credentials)
     IN  IF Len(cred) # 2
           THEN RespondClose(w, Status(401)) /\ UNCHANGED << authCalls, client >>
         ELSE /\ authCalls' = [authCalls EXCEPT ![w] = @ \cup { <<cred[1], cred[2]>> }]
              /\ IF ~moauthdAuthenticateUser(cred[1], cred[2])
                   THEN RespondClose(w, Status(401)) /\ UNCHANGED client
                 ELSE \/ /\ \E groups \in GroupLists(cred[1]) :
                              client' = [client EXCEPT ![w] =
                                           [@ EXCEPT !.remote_user = cred[1],
                                                     !.remote_uid = UidOf(cred[1]),
                                                     !.remote_groups = groups]]
                         /\ pc' = [pc EXCEPT ![w] = Entry(req[w])]
                         /\ UNCHANGED resp
                      \/ RespondClose(w, Status(401)) /\ UNCHANGED client
  /\ UNCHANGED others
  /\ UNCHANGED << applications, regOp, tokens, live, now, crashed, nreq, req, loc,
                  consumed, server >>

\* moauthdRunClient, "Bearer ": moauthdFindToken
AuthorizationBearer(w) ==
  /\ ~crashed
  /\ pc[w] = "authorization"
  /\ req[w].authorization.scheme = "Bearer"
  /\ LET token == moauthdFindToken(req[w].authorization.id)
     IN  IF token = NoRef
           THEN RespondClose(w, Status(401)) /\ UNCHANGED loc
         ELSE /\ loc' = [loc EXCEPT ![w] = [@ EXCEPT !.bearer = token]]
              /\ pc' = [pc EXCEPT ![w] = "bearer_check"]
              /\ UNCHANGED resp
  /\ UNCHANGED others
  /\ UNCHANGED << applications, regOp, tokens, live, now, crashed, nreq, req,
                  consumed, authCalls, server, client >>

AuthorizationOtherIgnored(w) ==
  /\ ~crashed
  /\ pc[w] = "authorization"
  /\ req[w].authorization.scheme \notin {"Basic", "Bearer"}
  /\ pc' = [pc EXCEPT ![w] = Entry(req[w])]
  /\ UNCHANGED others
  /\ UNCHANGED << applications, regOp, tokens, live, now, crashed, nreq, req, loc,
                  resp, consumed, authCalls, server, client >>

\* moauthdRunClient, any other scheme: logged; remote_user is empty, so 401
AuthorizationOther(w) ==
  /\ ~crashed
  /\ pc[w] = "authorization"
  /\ req[w].authorization.scheme \notin {"Basic", "Bearer"}
  /\ RespondClose(w, Status(401))
  /\ UNCHANGED others
  /\ UNCHANGED << applications, regOp, tokens, live, now, crashed, nreq, req, loc,
                  consumed, authCalls, server, client >>

\* moauthdRunClient, Bearer: token->expires and token->type, read through the
\* pointer with no lock held
BearerCheck(w) ==
  /\ ~crashed
  /\ pc[w] = "bearer_check"
  /\ \/ /\ \E t \in TokenView(loc[w].bearer) :
              IF t.expires <= now
                THEN pc' = [pc EXCEPT ![w] = "bearer_remove"] /\ UNCHANGED resp
              ELSE IF t.type # Access
                THEN RespondClose(w, Status(401))
              ELSE pc' = [pc EXCEPT ![w] = "bearer_attach"] /\ UNCHANGED resp
        /\ UNCHANGED crashed
     \/ /\ loc[w].bearer \notin live
        /\ Crash(w)
        /\ UNCHANGED resp
  /\ UNCHANGED others
  /\ UNCHANGED << applications, regOp, tokens, live, now, nreq, req, loc, consumed,
                  authCalls, server, client >>

\* moauthdRunClient, Bearer: cupsArrayRemove of the expired token under the
\* write lock; no identity, so 401
BearerRemove(w) ==
  /\ ~crashed
  /\ pc[w] = "bearer_remove"
  /\ \/ /\ \E l \in AfterDelete(loc[w].bearer) : live' = l
        /\ RespondClose(w, Status(401))
        /\ UNCHANGED crashed
     \/ /\ loc[w].bearer \notin live
        /\ Crash(w)
        /\ UNCHANGED << live, resp >>
  /\ UNCHANGED others
  /\ UNCHANGED << applications, regOp, tokens, now, nreq, req, loc, consumed,
                  authCalls, server, client >>

\* moauthdRunClient, Bearer: remote_token, remote_uid, remote_user and the groups
\* from the token; then 401 when remote_user is still empty
BearerAttach(w) ==
  /\ ~crashed
  /\ pc[w] = "bearer_attach"
  /\ \/ /\ \E t \in TokenView(loc[w].bearer) : \E groups \in GroupLists(t.user) :
              /\ client' = [client EXCEPT ![w] =
                              [remote_user |-> t.user, remote_uid |-> UidOf(t.user),
                               remote_token |-> loc[w].bearer,
                               remote_groups |-> groups]]
              /\ IF t.user = ""
                   THEN RespondClose(w, Status(401))
                   ELSE pc' = [pc EXCEPT ![w] = Entry(req[w])] /\ UNCHANGED resp
        /\ UNCHANGED crashed
     \/ /\ loc[w].bearer \notin live
        /\ Crash(w)
        /\ UNCHANGED << resp, client >>
  /\ UNCHANGED others
  /\ UNCHANGED << applications, regOp, tokens, live, now, nreq, req, loc, consumed,
                  authCalls, server >>

\* ------------------------------------------------------------ /introspect
\* do_introspect: the types[] table
TypeName(type) ==
  CASE type = Access -> "access" [] type = Grant -> "grant" [] OTHER -> "renewal"

IntrospectStatusAnyUser(c) ==
  IF c.remote_user = "" THEN 401
  ELSE 200

\* do_introspect: 401 without an identity, 403 outside introspect_group
IntrospectStatus(c) ==
  IF c.remote_user = "" THEN 401
  ELSE IF server.introspect_group # NoGroup
          /\ server.introspect_group \notin c.remote_groups THEN 403
  ELSE 200

\* do_introspect: the caller's rights, the token variable, moauthdFindToken
Introspect(w) ==
  /\ ~crashed
  /\ pc[w] = "introspect"
  /\ LET st    == IntrospectStatus(client[w])
         token == moauthdFindToken(req[w].token)
     IN  IF st # 200
           THEN Respond(w, Status(st)) /\ UNCHANGED loc
         ELSE IF req[w].token = NoRef \/ token = NoRef
           THEN Respond(w, Status(400)) /\ UNCHANGED loc
         ELSE /\ loc' = [loc EXCEPT ![w] = [@ EXCEPT !.token = token]]
              /\ pc' = [pc EXCEPT ![w] = "introspect_read"]
              /\ UNCHANGED resp
  /\ UNCHANGED others
  /\ UNCHANGED << applications, regOp, tokens, live, now, crashed, nreq, req,
                  consumed, authCalls, server, client >>

\* do_introspect: the JSON members, read through the token pointer with no lock
\* held. token->application->client_id reads through a NULL pointer when the
\* token has no application.
IntrospectRead(w) ==
  /\ ~crashed
  /\ pc[w] = "introspect_read"
  /\ \/ /\ \E t \in TokenView(loc[w].token) :
              /\ t.application # NoRef
              /\ Respond(w, [Status(200) EXCEPT
                    !.kind = "json",
                    !.json = [active |-> t.expires > now, scope |-> t.scopes,
                              client_id |-> AppOf(applications, t.application).client_id,
                              username |-> t.user, token_type |-> TypeName(t.type),
                              exp |-> t.expires, iat |-> t.created]])
        /\ UNCHANGED crashed
     \/ /\ \/ loc[w].token \notin live
           \/ \E t \in TokenView(loc[w].token) : t.application = NoRef
        /\ Crash(w)
        /\ UNCHANGED resp
  /\ UNCHANGED others
  /\ UNCHANGED << applications, regOp, tokens, live, now, nreq, req, loc, consumed,
                  authCalls, server, client >>

\* ------------------------------------------------------------ resources
\* moauthdGetFile of a public resource
GetFile(w) ==
  /\ ~crashed
  /\ pc[w] = "get_file"
  /\ Respond(w, [Status(200) EXCEPT !.kind = "file"])
  /\ UNCHANGED others
  /\ UNCHANGED << applications, regOp, tokens, live, now, crashed, nreq, req, loc,
                  consumed, authCalls, server, client >>

\* ------------------------------------------------------------ configuration
DefaultGrantLife == 300       \* 5 minutes
DefaultTokenLife == 604800    \* 1 week

\* The characters of a MaxGrantLife or MaxTokenLife value
LifeChars == {"0", "3", "-", "m", "M", "h", "d", "w", "x"}

\* The values explored; the empty one is a directive with no value
LifeValues == UNION { [1..n -> LifeChars] : n \in 0..MaxLifeLen }

\* The number of leading digits of s
RECURSIVE DigitsLen(_)
DigitsLen(s) == IF s = <<>> \/ ~IsDigit(Head(s)) THEN 0 ELSE 1 + DigitsLen(Tail(s))

\* strtol(value, &units, 10): an optional sign, then digits; with no digit the
\* value is 0 and units is the whole string
strtol(value) ==
  LET neg  == value # <<>> /\ Head(value) = "-"
      body == IF neg THEN Tail(value) ELSE value
      n    == DigitsLen(body)
  IN  IF n = 0 THEN [tval |-> 0, units |-> value]
      ELSE [tval |-> IF neg THEN 0 - atoi(body) ELSE atoi(body),
            units |-> SubSeq(body, n + 1, Len(body))]

\* get_seconds: the number times its unit, -1 for any other units string; the
\* products explored stay below 2^31
get_seconds(value) ==
  LET p == strtol(value)
  IN  IF SameNoCase(p.units, <<"m">>) THEN p.tval * 60
      ELSE IF SameNoCase(p.units, <<"h">>) THEN p.tval * 3600
      ELSE IF SameNoCase(p.units, <<"d">>) THEN p.tval * 86400
      ELSE IF SameNoCase(p.units, <<"w">>) THEN p.tval * 604800
      ELSE 0 - 1

\* load_config on a MaxGrantLife or MaxTokenLife line: a missing value or a
\* negative get_seconds fails the load, any other result is stored
LoadConfig(directive, value) ==
  /\ boot.pc = "config"
  /\ LET seconds == IF value = <<>> THEN 0 ELSE get_seconds(value)
         ok      == value # <<>> /\ ~(seconds < 0)
     IN  /\ boot' = [boot EXCEPT !.pc = IF ok THEN "loaded" ELSE "failed",
                                 !.directive = directive, !.value = value,
                                 !.seconds = seconds]
         /\ server' = IF ~ok THEN server
                      ELSE IF directive = "MaxGrantLife"
                           THEN [server EXCEPT !.max_grant_life = seconds]
                           ELSE [server EXCEPT !.max_token_life = seconds]
  /\ UNCHANGED << applications, regOp, tokens, live, now, crashed, nreq, pc, req, loc,
                  resp, consumed, authCalls, client, disk, moauth >>

\* ------------------------------------------------------------ state file
\* load_state: with no state file a private key is generated and saved; with a
\* state file its PrivateKey line is imported, and a file without a complete
\* line leaves private_key NULL
load_state ==
  /\ boot.pc = "state"
  /\ IF disk.state = NoFile
     THEN /\ server' = [server EXCEPT !.private_key = boot.made + 1]
          /\ boot' = [boot EXCEPT !.pc = "save_open", !.made = boot.made + 1]
     ELSE /\ server' = [server EXCEPT !.private_key =
                          IF disk.state = Truncated THEN NoKey ELSE disk.state]
          /\ boot' = [boot EXCEPT !.pc = IF disk.state = Truncated THEN "failed"
                                         ELSE "serving"]
  /\ UNCHANGED << applications, regOp, tokens, live, now, crashed, nreq, pc, req, loc,
                  resp, consumed, authCalls, client, disk, moauth >>

\* moauthdSaveServer: cupsFileOpen(newfile, "w") creates or empties the ".N"
\* file, or fails and the save returns false
SaveOpen ==
  /\ boot.pc = "save_open"
  /\ \/ /\ disk' = [disk EXCEPT !.new = Truncated]
        /\ boot' = [boot EXCEPT !.pc = "save_write"]
     \/ /\ boot' = [boot EXCEPT !.pc = "failed"]
        /\ UNCHANGED disk
  /\ UNCHANGED << applications, regOp, tokens, live, now, crashed, nreq, pc, req, loc,
                  resp, consumed, authCalls, server, client, moauth >>

\* moauthdSaveServer: cupsFilePutConf and cupsFileClose; their results are not
\* tested, so the save goes on whether the line reached the file or not
SaveWrite ==
  /\ boot.pc = "save_write"
  /\ \/ disk' = [disk EXCEPT !.new = server.private_key]
     \/ UNCHANGED disk
  /\ boot' = [boot EXCEPT !.pc = "save_rename_old"]
  /\ UNCHANGED << applications, regOp, tokens, live, now, crashed, nreq, pc, req, loc,
                  resp, consumed, authCalls, server, client, moauth >>

\* moauthdSaveServer: rename(state_file, oldfile); ENOENT is not an error
SaveRenameOld ==
  /\ boot.pc = "save_rename_old"
  /\ disk' = IF disk.state = NoFile THEN disk
             ELSE [disk EXCEPT !.old = disk.state, !.state = NoFile]
  /\ boot' = [boot EXCEPT !.pc = "save_rename_new"]
  /\ UNCHANGED << applications, regOp, tokens, live, now, crashed, nreq, pc, req, loc,
                  resp, consumed, authCalls, server, client, moauth >>

\* moauthdSaveServer: rename(newfile, state_file), or its failure
SaveRenameNew ==
  /\ boot.pc = "save_rename_new"
  /\ \/ /\ disk' = [disk EXCEPT !.state = disk.new, !.new = NoFile]
        /\ boot' = [boot EXCEPT !.pc = "serving"]
     \/ /\ boot' = [boot EXCEPT !.pc = "failed"]
        /\ UNCHANGED disk
  /\ UNCHANGED << applications, regOp, tokens, live, now, crashed, nreq, pc, req, loc,
                  resp, consumed, authCalls, server, client, moauth >>

\* The process dies at any point of its start or while it serves
Kill ==
  /\ boot.pc \notin {"down", "failed"}
  /\ boot' = [boot EXCEPT !.pc = "down"]
  /\ UNCHANGED << applications, regOp, tokens, live, now, crashed, nreq, pc, req, loc,
                  resp, consumed, authCalls, server, client, disk, moauth >>

\* The server is started again: a new server object, the same files
Restart ==
  /\ boot.pc \in {"down", "failed"}
  /\ boot.runs < MaxRuns
  /\ boot' = [boot EXCEPT !.pc = "state", !.runs = boot.runs + 1]
  /\ server' = [server EXCEPT !.private_key = NoKey]
  /\ UNCHANGED << applications, regOp, tokens, live, now, crashed, nreq, pc, req, loc,
                  resp, consumed, authCalls, client, disk, moauth >>

\* ------------------------------------------------------------ discovery metadata
Scopes == {"public", "private", "shared"}

\* strcmp() order of the scope names, the order of a cupsArrayNewStrings array
ScopeOrder == <<"private", "public", "shared">>

\* The remote paths of the Resource lines explored
ResourcePaths == {"/", "/docs", "/style.css"}

\* moauthdCreateResource: the registry with one more resource
moauthdCreateResource(resources, type, remote_path, scope) ==
  Append(resources, [type |-> type, remote_path |-> remote_path, scope |-> scope])

\* moauthdFindResource for a root-level file name: a resource registered under
\* that path, or a directory registered as "/"
moauthdFindResource(resources, path_info) ==
  \E i \in 1..Len(resources) :
    \/ resources[i].remote_path = path_info
    \/ resources[i].type = "dir" /\ resources[i].remote_path = "/"

\* The scopes array of moauthdCreateServer: each scope of the registry once, in
\* strcmp() order
ScopesArray(resources) ==
  SelectSeq(ScopeOrder, LAMBDA sc : \E i \in 1..Len(resources) : resources[i].scope = sc)

\* load_config on a Resource line: the resource is registered as a file or as a
\* directory, as stat() of its local path tells
LoadConfigResource(type, scope, remote_path) ==
  /\ boot.pc = "config"
  /\ Len(server.resources) < MaxResources
  /\ server' = [server EXCEPT !.resources =
                  moauthdCreateResource(server.resources, type, remote_path, scope)]
  /\ UNCHANGED << applications, regOp, tokens, live, now, crashed, nreq, pc, req, loc,
                  resp, consumed, authCalls, client, disk, boot, moauth >>

\* moauthdCreateServer after load_config: scopes_supported is "openid" followed
\* by the scopes of the resources registered so far
MakeMetadata ==
  /\ boot.pc = "config"
  /\ server' = [server EXCEPT !.metadata =
                  <<"openid">> \o ScopesArray(server.resources)]
  /\ boot' = [boot EXCEPT !.pc = "resources"]
  /\ UNCHANGED << applications, regOp, tokens, live, now, crashed, nreq, pc, req, loc,
                  resp, consumed, authCalls, client, disk, moauth >>

\* moauthdCreateServer, final setup: the three well-known documents, then the
\* home page, the image and the style sheet unless the configuration covers them
AddBuiltins ==
  /\ boot.pc = "resources"
  /\ LET r1 == moauthdCreateResource(server.resources, "static",
                  "/.well-known/oauth-authorization-server", "public")
         r2 == moauthdCreateResource(r1, "static",
                  "/.well-known/openid-configuration", "public")
         r3 == moauthdCreateResource(r2, "static", "/.well-known/jwks.json", "public")
         r4 == IF ~moauthdFindResource(r3, "/index.html")
                  /\ ~moauthdFindResource(r3, "/index.md")
               THEN moauthdCreateResource(r3, "static", "/index.md", "public")
               ELSE r3
         r5 == IF ~moauthdFindResource(r4, "/moauth.png")
               THEN moauthdCreateResource(r4, "static", "/moauth.png", "public")
               ELSE r4
         r6 == IF ~moauthdFindResource(r5, "/style.css")
               THEN moauthdCreateResource(r5, "static", "/style.css", "public")
               ELSE r5
     IN  server' = [server EXCEPT !.resources = r6]
  /\ boot' = [boot EXCEPT !.pc = "serving"]
  /\ UNCHANGED << applications, regOp, tokens, live, now, crashed, nreq, pc, req, loc,
                  resp, consumed, authCalls, client, disk, moauth >>

\* ------------------------------------------------------------ moauthConnect
\* URIs, as their parts in order: scheme, "://", host, resource
GoodUri == <<"https", "://", "as", "/authorize">>
HttpUri == <<"http", "://", "as", "/authorize">>
BadUri == <<"as/authorize">>

\* The authorization server URIs a client program passes
OAuthUris == { <<"https", "://", "as">>, <<"https", "://", "as", "/">>,
               <<"https", "://", "as", "/meta">>, <<"http", "://", "as", "/">>,
               BadUri }

WellKnownRfc8414 == "/.well-known/oauth-authorization-server"
WellKnownOpenId == "/.well-known/openid-configuration"

\* httpSeparateURI: a negative status for a string with no scheme, else the
\* parts, with "/" for a missing resource
httpSeparateURI(uri) ==
  IF Len(uri) >= 3 /\ uri[2] = "://"
  THEN [status |-> 0, scheme |-> uri[1], host |-> uri[3],
        resource |-> IF Len(uri) >= 4 THEN uri[4] ELSE "/"]
  ELSE [status |-> 0 - 3, scheme |-> "", host |-> "", resource |-> ""]

\* The test applied to the URI passed in and to every endpoint of the metadata
BadHttpsUri(uri) ==
  httpSeparateURI(uri).status < 0 \/ httpSeparateURI(uri).scheme # "https"

\* Message bodies: a JSON object with each endpoint missing or one of three
\* URIs, and a body that is not JSON
EndpointValues == {NULL, GoodUri, HttpUri, BadUri}

JsonBodies ==
  [json : {TRUE}, authorization_endpoint : EndpointValues,
   token_endpoint : EndpointValues, introspection_endpoint : EndpointValues,
   registration_endpoint : EndpointValues, text : {TRUE}]

NotJson == [NoBody EXCEPT !.text = TRUE]

ContentTypes == {"", "text/json", "application/json", "text/html"}

\* What a GET can bring back: the request could not be written (status 0), or a
\* status, a Content-Type value and a body or none
Responses ==
  [status : {0, 200, 404}, content_type : ContentTypes,
   body : JsonBodies \cup {NotJson, NoBody}]

\* cupsJSONImportString: the object, or NULL for a body that is not JSON
cupsJSONImportString(body) == IF body.json THEN body ELSE NoBody

\* moauthConnect: up to _moauthConnect and calloc; no connection for a URI
\* that is not a well-formed https URI
Connect(oauth_uri) ==
  /\ moauth.pc = "idle"
  /\ moauth' = IF BadHttpsUri(oauth_uri)
               THEN [moauth EXCEPT !.pc = "done", !.oauth_uri = oauth_uri]
               ELSE [moauth EXCEPT
                       !.pc = IF httpSeparateURI(oauth_uri).resource = "/"
                              THEN "rfc8414" ELSE "resource",
                       !.oauth_uri = oauth_uri,
                       !.resource = httpSeparateURI(oauth_uri).resource]
  /\ UNCHANGED << applications, regOp, tokens, live, now, crashed, nreq, pc, req, loc,
                  resp, consumed, authCalls, server, client, disk, boot >>

\* The openid-configuration GET tried for "/" whatever the first GET brought
TryOpenIdAlways(resource, body) == resource = "/"

\* moauthConnect: the openid-configuration GET is tried for "/" with no body
\* so far
TryOpenId(resource, body) == resource = "/" /\ body = NoBody

\* moauthConnect: GET of the RFC 8414 document; the type and the body are
\* taken from a 200 answer
GetRfc8414(r) ==
  /\ moauth.pc = "rfc8414"
  /\ LET body == IF r.status = 200 THEN r.body ELSE NoBody
     IN  moauth' = [moauth EXCEPT
                      !.requests = Append(@, WellKnownRfc8414),
                      !.yields = Append(@, body # NoBody),
                      !.content_type = IF r.status = 200 THEN r.content_type ELSE @,
                      !.body = body,
                      !.pc = IF TryOpenId(moauth.resource, body) THEN "openid"
                             ELSE IF body = NoBody THEN "resource" ELSE "parse"]
  /\ UNCHANGED << applications, regOp, tokens, live, now, crashed, nreq, pc, req, loc,
                  resp, consumed, authCalls, server, client, disk, boot >>

\* moauthConnect: GET of the OpenID configuration
GetOpenId(r) ==
  /\ moauth.pc = "openid"
  /\ LET body == IF r.status = 200 THEN r.body ELSE NoBody
     IN  moauth' = [moauth EXCEPT
                      !.requests = Append(@, WellKnownOpenId),
                      !.yields = Append(@, body # NoBody),
                      !.content_type = IF r.status = 200 THEN r.content_type ELSE @,
                      !.body = body,
                      !.pc = IF body = NoBody THEN "resource" ELSE "parse"]
  /\ UNCHANGED << applications, regOp, tokens, live, now, crashed, nreq, pc, req, loc,
                  resp, consumed, authCalls, server, client, disk, boot >>

\* moauthConnect: GET of the resource of the URI; the status of the answer is
\* not looked at
GetResource(r) ==
  /\ moauth.pc = "resource"
  /\ LET body == IF r.status # 0 THEN r.body ELSE NoBody
     IN  moauth' = [moauth EXCEPT
                      !.requests = Append(@, moauth.resource),
                      !.yields = Append(@, body # NoBody),
                      !.content_type = IF r.status # 0 THEN r.content_type ELSE @,
                      !.body = body,
                      !.pc = "parse"]
  /\ UNCHANGED << applications, regOp, tokens, live, now, crashed, nreq, pc, req, loc,
                  resp, consumed, authCalls, server, client, disk, boot >>

\* The endpoints of the metadata in the order moauthConnect tests them
EndpointNames == <<"authorization_endpoint", "introspection_endpoint",
                   "registration_endpoint", "token_endpoint">>

\* The final test without its token_endpoint half
HasEndpointsAuthOnly(endpoints) == endpoints.authorization_endpoint # NULL

\* moauthConnect: a connection needs both endpoints
HasEndpoints(endpoints) ==
  endpoints.authorization_endpoint # NULL /\ endpoints.token_endpoint # NULL

\* moauthConnect: the metadata is imported when the type is empty or text/json,
\* each endpoint found must be an https URI, and both the authorization and
\* the token endpoint must have been found
ParseMetadata ==
  /\ moauth.pc = "parse"
  /\ LET is_json  == moauth.content_type \in {"", "text/json"}
         parsed   == moauth.content_type # NULL /\ moauth.body # NoBody /\ is_json
         metadata == IF parsed THEN cupsJSONImportString(moauth.body) ELSE NoBody
         bad      == \E i \in 1..4 : /\ metadata[EndpointNames[i]] # NULL
                                       /\ BadHttpsUri(metadata[EndpointNames[i]])
         endpoints == [n \in DOMAIN NoEndpoints |-> metadata[n]]
     IN  moauth' = [moauth EXCEPT
                      !.pc = "done", !.metadata = metadata,
                      !.server = IF bad THEN NoEndpoints ELSE endpoints,
                      !.connection = ~bad /\ HasEndpoints(endpoints)]
  /\ UNCHANGED << applications, regOp, tokens, live, now, crashed, nreq, pc, req, loc,
                  resp, consumed, authCalls, server, client, disk, boot >>

\* ------------------------------------------------------------ moauthdRunServer
MaxPending == 2       \* connections waiting on the listening sockets

\* The steps of the main thread inside moauthdRunServer
AcceptLoop(position) ==
  ~crashed /\ boot.pc = "serving" /\ boot.loop = position

\* Everything but the main thread's record
AcceptUnchanged ==
  UNCHANGED << applications, regOp, tokens, live, now, crashed, nreq, pc, req, loc,
               resp, consumed, authCalls, server, client, disk, moauth >>

\* A client program connects to a listening socket
ClientConnect ==
  /\ ~crashed /\ boot.pc = "serving" /\ boot.loop # "exited"
  /\ boot.pending < MaxPending
  /\ boot.num_clients + boot.pending < MaxClients
  /\ boot' = [boot EXCEPT !.pending = @ + 1]
  /\ AcceptUnchanged

\* poll(listeners, num_listeners, -1) returns with POLLIN set
Poll ==
  /\ AcceptLoop("poll")
  /\ boot.pending > 0
  /\ boot' = [boot EXCEPT !.loop = "accept"]
  /\ AcceptUnchanged

\* poll() fails: EAGAIN and EINTR are retried, any other error ends the loop
PollFailed(retry) ==
  /\ AcceptLoop("poll")
  /\ boot' = [boot EXCEPT !.loop = IF retry THEN "poll" ELSE "exited"]
  /\ AcceptUnchanged

\* moauthdCreateClient up to httpAcceptConnection: no client object when calloc
\* fails; otherwise the connection is counted and accepted, or the accept fails
CreateClientAccept(outcome) ==
  /\ AcceptLoop("accept")
  /\ boot' = IF outcome = "calloc"
             THEN [boot EXCEPT !.loop = "poll"]
             ELSE IF outcome = "accept"
             THEN [boot EXCEPT !.loop = "poll", !.num_clients = @ + 1,
                               !.pending = @ - 1]
             ELSE [boot EXCEPT !.loop = "tls", !.num_clients = @ + 1,
                               !.pending = @ - 1, !.hello = FALSE]
  /\ AcceptUnchanged

\* The accepted client sends the first message of the TLS handshake
ClientHello ==
  /\ AcceptLoop("tls")
  /\ ~boot.hello
  /\ boot' = [boot EXCEPT !.hello = TRUE]
  /\ AcceptUnchanged

\* moauthdCreateClient, httpEncryption(HTTP_ENCRYPTION_ALWAYS): the handshake
\* is run by the main thread and ends when the client has spoken (a session, or
\* an error) or when the wait for the client times out
CreateClientEncryption(ok) ==
  /\ AcceptLoop("tls")
  /\ ok => boot.hello
  /\ boot' = [boot EXCEPT !.loop = IF ok THEN "thread" ELSE "poll",
                          !.hello = FALSE]
  /\ AcceptUnchanged

\* cupsThreadCreate(moauthdRunClient): the thread is detached, or the client
\* object is deleted
ThreadCreate(ok) ==
  /\ AcceptLoop("thread")
  /\ boot' = [boot EXCEPT !.loop = "poll",
                          !.threads = IF ok THEN @ + 1 ELSE @]
  /\ AcceptUnchanged

\* ------------------------------------------------------------ moauthAuthorize
Pid == 7              \* the process id posix_spawnp stores for xdg-open

\* A redirect URI that makes the authorization URL longer than url[2048]
LongUri == "https://app/cb?long"

\* waitpid(pid, &estatus, 0): the process id of the child, or -1
WaitResults == {Pid, 0 - 1}

\* moauthAuthorize, spawn-based build: the arguments are checked, the
\* code_challenge is derived from the code_verifier, the URL is built, xdg-open
\* is started and waited for. status starts at 1 and is cleared when
\* posix_spawnp returns an error, when waitpid returns anything but 0, or when
\* the exit status is not 0
moauthAuthorize(redirect_uri, client_id, code_verifier, spawn, wait, estatus) ==
  /\ moauth.pc = "done"
  /\ LET connected == moauth.connection
         challenge == IF code_verifier # NULL THEN S256(code_verifier) ELSE NULL
         status    == IF spawn # 0 THEN 0
                      ELSE IF wait # 0 THEN 0
                      ELSE IF estatus # 0 THEN 0
                      ELSE 1
     IN  IF ~connected \/ redirect_uri = NULL \/ client_id = NULL
           THEN moauth' = [moauth EXCEPT
                             !.pc = "authorized", !.status = 0,
                             !.error = IF connected THEN "Bad arguments to function."
                                       ELSE ""]
         ELSE IF redirect_uri = LongUri
           THEN moauth' = [moauth EXCEPT
                             !.pc = "authorized", !.status = 0,
                             !.code_verifier = code_verifier,
                             !.code_challenge = challenge,
                             !.error = "Unable to create authorization URL."]
         ELSE moauth' = [moauth EXCEPT
                           !.pc = "authorized", !.status = status,
                           !.code_verifier = code_verifier,
                           !.code_challenge = challenge,
                           !.spawned = (spawn = 0),
                           !.waited = IF spawn = 0 THEN wait ELSE 0,
                           !.estatus = IF spawn = 0 /\ wait = Pid THEN estatus ELSE 0,
                           !.error = IF status = 0
                                     THEN "Unable to open authorization URL." ELSE ""]
  /\ UNCHANGED << applications, regOp, tokens, live, now, crashed, nreq, pc, req, loc,
                  resp, consumed, authCalls, server, client, disk, boot >>

\* ------------------------------------------------------------ specifications
InitWorkers ==
  /\ regOp = NoOp
  /\ tokens = <<>>
  /\ live = {}
  /\ now = 0
  /\ crashed = FALSE
  /\ nreq = 0
  /\ pc = [w \in Workers |-> "wait"]
  /\ req = [w \in Workers |-> NoReq]
  /\ loc = [w \in Workers |-> NoLoc]
  /\ resp = [w \in Workers |-> NoResp]
  /\ consumed = {}
  /\ authCalls = [w \in Workers |-> {}]
  /\ client = [w \in Workers |-> NoClient]

\* The server is up: moauthdCreateServer has returned, no client program runs
InitCommon ==
  /\ InitWorkers
  /\ disk = NoDisk
  /\ boot = Serving
  /\ moauth = NoConnect

\* moauthdCreateServer: the configuration file's applications are registered
Init ==
  /\ applications = LoadApps(<<>>, ConfigApps)
  /\ server = DefaultServer
  /\ InitCommon

Next ==
  \/ \E w \in Workers : ReadRequest(w, TokenFlowReqs)
  \/ \E w \in Workers : Finish(w)
  \/ \E w \in Workers : AuthorizePost(w)
  \/ \E w \in Workers : AuthorizeCreate(w)
  \/ \E w \in Workers : AuthorizeChallenge(w)
  \/ \E w \in Workers : Token(w)
  \/ \E w \in Workers : TokenCheck(w)
  \/ \E w \in Workers : TokenExpire(w)
  \/ \E w \in Workers : TokenCreate(w)
  \/ \E w \in Workers : TokenDelete(w)
  \/ Tick

Spec == Init /\ [][Next]_vars

\* POST /authorize alone: every request it distinguishes
NextAuthorize ==
  \/ \E w \in Workers : ReadRequest(w, AuthorizePostReqs)
  \/ \E w \in Workers : Finish(w)
  \/ \E w \in Workers : AuthorizePost(w)
  \/ \E w \in Workers : AuthorizeCreate(w)
  \/ \E w \in Workers : AuthorizeChallenge(w)

SpecAuthorize == Init /\ [][NextAuthorize]_vars

\* GET /authorize, every request it distinguishes, beside workers that create grants
NextAuthorizeGet ==
  \/ \E w \in Workers : ReadRequest(w, AuthorizeGetReqs \cup GrantReqs)
  \/ \E w \in Workers : Finish(w)
  \/ \E w \in Workers : AuthorizeGet(w)
  \/ \E w \in Workers : AuthorizePost(w)
  \/ \E w \in Workers : AuthorizeCreate(w)
  \/ \E w \in Workers : AuthorizeChallenge(w)

SpecAuthorizeGet == Init /\ [][NextAuthorizeGet]_vars

\* POST /token without a grant: rejected requests and the password grant
NextPassword ==
  \/ \E w \in Workers : ReadRequest(w, OtherTokenReqs)
  \/ \E w \in Workers : Finish(w)
  \/ \E w \in Workers : Token(w)
  \/ \E w \in Workers : TokenCreatePw(w)

SpecPassword == Init /\ [][NextPassword]_vars

\* The registry alone: any sequence of registrations and lookups
InitReg ==
  /\ applications = <<>>
  /\ server = DefaultServer
  /\ InitCommon

NextReg ==
  \/ \E c \in ClientIds, u \in Uris : moauthdAddApplication(c, u)
  \/ \E c \in ClientIds \cup {UnknownClient}, u \in Uris \cup {NULL} :
       FindApplicationCall(c, u)

SpecReg == InitReg /\ [][NextReg]_vars

\* /introspect under each IntrospectGroup setting, beside workers that create
\* tokens
InitIntrospect ==
  /\ applications = LoadApps(<<>>, ConfigApps)
  /\ \E g \in {NoGroup, AliceGid, OtherGid} :
       server = [DefaultServer EXCEPT !.introspect_group = g]
  /\ InitCommon

NextIntrospect ==
  \/ \E w \in Workers : ReadRequest(w, TokenMakerReqs \cup IntrospectReqs)
  \/ \E w \in Workers : Finish(w)
  \/ \E w \in Workers : Close(w)
  \/ \E w \in Workers : AuthorizePost(w)
  \/ \E w \in Workers : AuthorizeCreate(w)
  \/ \E w \in Workers : AuthorizeChallenge(w)
  \/ \E w \in Workers : Token(w)
  \/ \E w \in Workers : TokenCreatePw(w)
  \/ \E w \in Workers : AuthorizationBasic(w)
  \/ \E w \in Workers : AuthorizationBearer(w)
  \/ \E w \in Workers : BearerCheck(w)
  \/ \E w \in Workers : BearerRemove(w)
  \/ \E w \in Workers : BearerAttach(w)
  \/ \E w \in Workers : Introspect(w)
  \/ \E w \in Workers : IntrospectRead(w)
  \/ Tick

SpecIntrospect == InitIntrospect /\ [][NextIntrospect]_vars

\* The Authorization: header under both settings of Option BasicAuth
InitAuthorization ==
  /\ applications = LoadApps(<<>>, ConfigApps)
  /\ \E o \in {{}, {"BasicAuth"}} : server = [DefaultServer EXCEPT !.options = o]
  /\ InitCommon

NextAuthorization ==
  \/ \E w \in Workers : ReadRequest(w, HeaderReqs)
  \/ \E w \in Workers : Finish(w)
  \/ \E w \in Workers : Close(w)
  \/ \E w \in Workers : AuthorizePost(w)
  \/ \E w \in Workers : AuthorizeCreate(w)
  \/ \E w \in Workers : AuthorizeChallenge(w)
  \/ \E w \in Workers : Token(w)
  \/ \E w \in Workers : TokenCreatePw(w)
  \/ \E w \in Workers : AuthorizationBasic(w)
  \/ \E w \in Workers : AuthorizationBearer(w)
  \/ \E w \in Workers : AuthorizationOther(w)
  \/ \E w \in Workers : BearerCheck(w)
  \/ \E w \in Workers : BearerRemove(w)
  \/ \E w \in Workers : BearerAttach(w)
  \/ \E w \in Workers : GetFile(w)
  \/ Tick

SpecAuthorization == InitAuthorization /\ [][NextAuthorization]_vars

\* The Authorization: schemes that need no token
NextScheme ==
  \/ \E w \in Workers : ReadRequest(w, SchemeReqs)
  \/ \E w \in Workers : Finish(w)
  \/ \E w \in Workers : Close(w)
  \/ \E w \in Workers : AuthorizationBasic(w)
  \/ \E w \in Workers : AuthorizationOther(w)
  \/ \E w \in Workers : Introspect(w)
  \/ \E w \in Workers : GetFile(w)

SpecScheme == InitAuthorization /\ [][NextScheme]_vars

\* The Host: check under the default and another configured port; the client of
\* the first worker sends every Host: value
HostWorker == CHOOSE w \in Workers : TRUE

InitHost ==
  /\ applications = LoadApps(<<>>, ConfigApps)
  /\ \E p \in {DefaultPort, AltPort} : server = [DefaultServer EXCEPT !.port = p]
  /\ InitCommon

NextHost ==
  \/ \E w \in Workers : ReadRequest(w, IF w = HostWorker THEN HostReqs ELSE PlainReqs)
  \/ \E w \in Workers : Finish(w)
  \/ \E w \in Workers : Close(w)
  \/ \E w \in Workers : GetFile(w)

SpecHost == InitHost /\ [][NextHost]_vars

\* The Expect: value of a request
NextExpect ==
  \/ \E w \in Workers : ReadRequest(w, ExpectReqs)
  \/ \E w \in Workers : Finish(w)
  \/ \E w \in Workers : Close(w)
  \/ \E w \in Workers : AuthorizationBasic(w)
  \/ \E w \in Workers : Expect(w)
  \/ \E w \in Workers : Token(w)
  \/ \E w \in Workers : TokenCreatePw(w)
  \/ \E w \in Workers : Introspect(w)
  \/ \E w \in Workers : GetFile(w)

SpecExpect == Init /\ [][NextExpect]_vars

\* The request URI test; the client of the first worker sends every target
NextPath ==
  \/ \E w \in Workers : ReadRequest(w, IF w = HostWorker THEN PathReqs ELSE PlainReqs)
  \/ \E w \in Workers : Finish(w)
  \/ \E w \in Workers : Close(w)
  \/ \E w \in Workers : GetFile(w)

SpecPath == Init /\ [][NextPath]_vars

\* A configuration file with one MaxGrantLife or MaxTokenLife line, then the
\* requests that create grants and access tokens
InitLife ==
  /\ applications = LoadApps(<<>>, ConfigApps)
  /\ server = [DefaultServer EXCEPT !.max_grant_life = DefaultGrantLife,
                                    !.max_token_life = DefaultTokenLife]
  /\ InitWorkers
  /\ disk = NoDisk
  /\ boot = [Serving EXCEPT !.pc = "config"]
  /\ moauth = NoConnect

NextLife ==
  \/ \E d \in {"MaxGrantLife", "MaxTokenLife"}, v \in LifeValues : LoadConfig(d, v)
  \/ \E w \in Workers : boot.pc = "loaded" /\ ReadRequest(w, TokenMakerReqs)
  \/ \E w \in Workers : Finish(w)
  \/ \E w \in Workers : AuthorizePost(w)
  \/ \E w \in Workers : AuthorizeCreate(w)
  \/ \E w \in Workers : AuthorizeChallenge(w)
  \/ \E w \in Workers : Token(w)
  \/ \E w \in Workers : TokenCreatePw(w)

SpecLife == InitLife /\ [][NextLife]_vars

\* The first start of the server with no state file, then kills and restarts
InitState ==
  /\ applications = LoadApps(<<>>, ConfigApps)
  /\ server = DefaultServer
  /\ InitWorkers
  /\ disk = NoDisk
  /\ boot = [Serving EXCEPT !.pc = "state", !.runs = 1]
  /\ moauth = NoConnect

NextState ==
  \/ load_state
  \/ SaveOpen
  \/ SaveWrite
  \/ SaveRenameOld
  \/ SaveRenameNew
  \/ Kill
  \/ Restart

SpecState == InitState /\ [][NextState]_vars

\* A configuration file with up to MaxResources Resource lines, then the
\* metadata and the built-in resources
InitScopes ==
  /\ applications = LoadApps(<<>>, ConfigApps)
  /\ server = DefaultServer
  /\ InitWorkers
  /\ disk = NoDisk
  /\ boot = [Serving EXCEPT !.pc = "config"]
  /\ moauth = NoConnect

NextScopes ==
  \/ \E t \in {"file", "dir"}, sc \in Scopes, p \in ResourcePaths :
       LoadConfigResource(t, sc, p)
  \/ MakeMetadata
  \/ AddBuiltins

SpecScopes == InitScopes /\ [][NextScopes]_vars

\* A client program calls moauthConnect; the server answers each GET in any way
NextConnect ==
  \/ \E u \in OAuthUris : Connect(u)
  \/ \E r \in Responses : GetRfc8414(r)
  \/ \E r \in Responses : GetOpenId(r)
  \/ \E r \in Responses : GetResource(r)
  \/ ParseMetadata

SpecConnect == Init /\ [][NextConnect]_vars

\* The answers of a server that serves its metadata, or serves nothing
HelperResponses ==
  { [status |-> 200, content_type |-> "text/json",
     body |-> [json |-> TRUE, authorization_endpoint |-> GoodUri,
               token_endpoint |-> GoodUri, introspection_endpoint |-> NULL,
               registration_endpoint |-> NULL, text |-> TRUE]],
    [status |-> 404, content_type |-> "text/html", body |-> NotJson] }

\* A client program connects, then opens the authorization page
NextHelper ==
  \/ \E u \in OAuthUris : Connect(u)
  \/ \E r \in HelperResponses : GetRfc8414(r)
  \/ \E r \in HelperResponses : GetOpenId(r)
  \/ \E r \in HelperResponses : GetResource(r)
  \/ ParseMetadata
  \/ \E u \in {NULL, UriA, LongUri}, c \in {NULL, AppA}, v \in {NULL, V1, V2},
        sp \in {0, 2}, wt \in WaitResults, es \in {0, 1} :
       moauthAuthorize(u, c, v, sp, wt, es)

\* The main thread of a running server and the clients that connect to it
NextAccept ==
  \/ ClientConnect
  \/ Poll
  \/ \E retry \in BOOLEAN : PollFailed(retry)
  \/ \E outcome \in {"calloc", "accept", "accepted"} : CreateClientAccept(outcome)
  \/ ClientHello
  \/ \E ok \in BOOLEAN : CreateClientEncryption(ok)
  \/ \E ok \in BOOLEAN : ThreadCreate(ok)

SpecAccept == Init /\ [][NextAccept]_vars

\* Requests of workers that fail: a password grant creates a token without an
\* application, and POST /introspect names it
ContainReqs ==
  { [TokenBase EXCEPT !.grant_type = "password", !.client_id = NULL,
                      !.username = Alice, !.password = GoodPw] }
  \cup
  { [IntrospectBase EXCEPT !.authorization = Basic(GoodCred), !.token = t]
      : t \in 1..Len(tokens) }

\* The main thread with its failures to accept and to create threads, beside
\* the workers
NextContain ==
  \/ ClientConnect
  \/ Poll
  \/ \E outcome \in {"calloc", "accept", "accepted"} : CreateClientAccept(outcome)
  \/ ClientHello
  \/ \E ok \in BOOLEAN : CreateClientEncryption(ok)
  \/ \E ok \in BOOLEAN : ThreadCreate(ok)
  \/ \E w \in Workers : ReadRequest(w, ContainReqs)
  \/ \E w \in Workers : Finish(w)
  \/ \E w \in Workers : Token(w)
  \/ \E w \in Workers : TokenCreatePw(w)
  \/ \E w \in Workers : AuthorizationBasic(w)
  \/ \E w \in Workers : Introspect(w)
  \/ \E w \in Workers : IntrospectRead(w)

SpecContain == InitIntrospect /\ [][NextContain]_vars

\* Requests with credentials that fail the checks made before authentication
NextPreflight ==
  \/ \E w \in Workers : ReadRequest(w, PreflightReqs)
  \/ \E w \in Workers : Finish(w)
  \/ \E w \in Workers : Close(w)
  \/ \E w \in Workers : Token(w)
  \/ \E w \in Workers : TokenCreatePw(w)
  \/ \E w \in Workers : AuthorizationBasic(w)
  \/ \E w \in Workers : AuthorizationBearer(w)
  \/ \E w \in Workers : BearerCheck(w)
  \/ \E w \in Workers : BearerAttach(w)
  \/ \E w \in Workers : GetFile(w)

SpecPreflight == Init /\ [][NextPreflight]_vars

SpecHelper == Init /\ [][NextHelper]_vars

\* The requests of a client program that used moauthAuthorize: the browser that
\* xdg-open started posts the login form with the code_challenge of the
\* authorization URL, and the program exchanges the code it is redirected with
HelperReqs ==
  (IF moauth.pc = "authorized" /\ moauth.spawned
     THEN { [AuthorizePostBase EXCEPT !.challenge = moauth.code_challenge] }
     ELSE {})
  \cup
  { [TokenBase EXCEPT !.code = k, !.verifier = v]
      : k \in 1..Len(tokens), v \in {NULL, V1, V2} }

\* moauthConnect, moauthAuthorize, then the server's authorization code flow
NextPkce ==
  \/ Connect(<<"https", "://", "as">>)
  \/ \E r \in { x \in HelperResponses : x.status = 200 } : GetRfc8414(r)
  \/ ParseMetadata
  \/ \E v \in {V1, V2} : moauthAuthorize(UriA, AppA, v, 0, Pid, 0)
  \/ \E w \in Workers : ReadRequest(w, HelperReqs)
  \/ \E w \in Workers : Finish(w)
  \/ \E w \in Workers : AuthorizePost(w)
  \/ \E w \in Workers : AuthorizeCreate(w)
  \/ \E w \in Workers : AuthorizeChallenge(w)
  \/ \E w \in Workers : Token(w)
  \/ \E w \in Workers : TokenCheck(w)
  \/ \E w \in Workers : TokenExpire(w)
  \/ \E w \in Workers : TokenCreate(w)
  \/ \E w \in Workers : TokenDelete(w)
  \/ Tick

SpecPkce == Init /\ [][NextPkce]_vars

\* ------------------------------------------------------------ claims
IsExchange(r) == r.path = "/token" /\ r.grant_type = "authorization_code"

IsAuthorizePost(r) == r.path = "/authorize" /\ r.method = "POST"

Entries == { applications[i] : i \in 1..Len(applications) }

Registered(client_id, redirect_uri) ==
  \E a \in Entries : a.client_id = client_id /\ a.redirect_uri = redirect_uri

KnownClientId(client_id) == \E a \in Entries : a.client_id = client_id

Answered200(w) ==
  pc[w] = "responded" /\ IsExchange(req[w]) /\ resp[w].status = 200

\* C1: concurrent exchanges of one grant code are answered 200 at most once, and
\* at most one access token is created from one grant.
C1_OneSuccessPerGrant ==
  \A w1, w2 \in Workers :
    (w1 # w2 /\ Answered200(w1) /\ Answered200(w2))
      => req[w1].code # req[w2].code

\* C2: once the exchange of code G was answered 200, G is not in the token store
\* and every later exchange of G is answered 400.
C2_ConsumedGrantGone ==
  [][ /\ \A g \in consumed' : g \notin live'
      /\ \A w \in Workers :
           (pc[w] = "token" /\ pc'[w] # "token" /\ IsExchange(req[w])
              /\ req[w].code \in consumed)
             => (pc'[w] = "responded" /\ resp'[w].status = 400) ]_vars

C2_Witness ==
  \E w \in Workers :
    /\ pc[w] = "responded" /\ IsExchange(req[w])
    /\ req[w].code \in consumed /\ req[w].code \notin live
    /\ loc[w].grant = NoRef /\ resp[w].status = 400

\* C3: when do_token checks the code_verifier of an exchange whose code names a
\* grant token that carries a challenge, the exchange goes on to issue the access
\* token if and only if the request has a code_verifier whose S256 value equals
\* the stored challenge; otherwise the answer is 400 and no token is created.
C3_VerifierDecides ==
  [][ \A w \in Workers :
        LET g == loc[w].grant
        IN  (/\ pc[w] = "tok_check" /\ pc'[w] # "tok_check"
             /\ tokens[g].challenge # NULL
             /\ tokens[g].application = loc[w].app
             /\ tokens[g].expires > now)
            => LET match == /\ req[w].verifier # NULL
                            /\ S256(req[w].verifier) = tokens[g].challenge
               IN  /\ match <=> pc'[w] = "tok_create"
                   /\ ~match => /\ pc'[w] = "responded"
                                /\ resp'[w].status = 400
                                /\ tokens' = tokens /\ live' = live ]_vars

\* C3, while the grant token is still in the store: what lines 907-930 of
\* do_token do when no other worker has consumed the grant in between
C3_VerifierDecidesInStore ==
  [][ \A w \in Workers :
        LET g == loc[w].grant
        IN  (/\ pc[w] = "tok_check" /\ pc'[w] # "tok_check"
             /\ g \in live
             /\ tokens[g].challenge # NULL
             /\ tokens[g].application = loc[w].app
             /\ tokens[g].expires > now)
            => LET match == /\ req[w].verifier # NULL
                            /\ S256(req[w].verifier) = tokens[g].challenge
               IN  /\ match <=> pc'[w] = "tok_create"
                   /\ ~match => /\ pc'[w] = "responded"
                                /\ resp'[w].status = 400
                                /\ tokens' = tokens /\ live' = live ]_vars

C3_InStoreWitness ==
  \E w1, w2 \in Workers :
    /\ pc[w1] = "tok_create" /\ loc[w1].grant \in live
    /\ tokens[loc[w1].grant].challenge = S256(V1) /\ req[w1].verifier = V1
    /\ pc[w2] = "responded" /\ loc[w2].grant = loc[w1].grant
    /\ req[w2].verifier = V2 /\ resp[w2].status = 400

\* C4: an exchange whose code_verifier does not match the grant's challenge is
\* answered 400 and the grant is removed from the store.
C4_MismatchRemovesGrant ==
  [][ \A w \in Workers :
        LET g == loc[w].grant
        IN  (/\ pc[w] = "tok_check" /\ pc'[w] # "tok_check"
             /\ g \in live
             /\ tokens[g].challenge # NULL
             /\ tokens[g].application = loc[w].app
             /\ tokens[g].expires > now
             /\ req[w].verifier # NULL
             /\ S256(req[w].verifier) # tokens[g].challenge)
            => (pc'[w] = "responded" /\ resp'[w].status = 400 /\ g \notin live') ]_vars

\* C5: every 302 answer of POST /authorize goes to a redirect_uri registered for
\* the request's client_id (stated for requests that carry a redirect_uri).
C5_RedirectIsRegistered ==
  \A w \in Workers :
    (/\ pc[w] = "responded" /\ IsAuthorizePost(req[w])
     /\ req[w].redirect_uri # NULL /\ resp[w].status = 302)
      => Registered(req[w].client_id, resp[w].uri)

\* C6: moauthdFindApplication with a redirect_uri returns an entry only if an
\* entry with exactly that client_id and exactly that redirect_uri was added.
C6_FindIsExact ==
  (regOp.op = "find" /\ regOp.redirect_uri # NULL /\ regOp.ret # NoRef)
    => /\ Registered(regOp.client_id, regOp.redirect_uri)
       /\ AppOf(applications, regOp.ret).client_id = regOp.client_id
       /\ AppOf(applications, regOp.ret).redirect_uri = regOp.redirect_uri

\* C7: the registry holds at most one entry per (client_id, redirect_uri): adding
\* an existing pair changes nothing and returns the existing entry, adding a new
\* pair returns the entry of the new pair.
C7_OneEntryPerPair ==
  /\ \A i, j \in 1..Len(applications) :
       (/\ applications[i].client_id = applications[j].client_id
        /\ applications[i].redirect_uri = applications[j].redirect_uri) => i = j
  /\ regOp.op = "add" =>
       LET old == { a \in { regOp.before[i] : i \in 1..Len(regOp.before) } :
                      /\ a.client_id = regOp.client_id
                      /\ a.redirect_uri = regOp.redirect_uri }
       IN  /\ old # {} => /\ applications = regOp.before
                          /\ regOp.ret \in { a.id : a \in old }
           /\ old = {} => /\ Len(applications) = Len(regOp.before) + 1
                          /\ AppOf(applications, regOp.ret).client_id = regOp.client_id
                          /\ AppOf(applications, regOp.ret).redirect_uri
                               = regOp.redirect_uri

\* C8: POST /authorize with valid client parameters ends in a 302 that carries a
\* new grant's id and the state exactly when the Authenticator accepts the
\* username and password, the grant being bound to the application, the user, the
\* scopes and the code_challenge; otherwise in a 302 with error=access_denied and
\* the state, and no token is added.
C8_GrantIffAuthenticated ==
  \A w \in Workers :
    (/\ pc[w] \in {"responded", "crashed"} /\ IsAuthorizePost(req[w])
     /\ req[w].response_type = "code" /\ KnownClientId(req[w].client_id))
      => LET r == req[w]
             accepted == /\ r.username # NULL /\ r.password # NULL
                         /\ moauthdAuthenticateUser(r.username, r.password)
         IN  /\ pc[w] = "responded" /\ resp[w].status = 302
             /\ resp[w].state = r.state
             /\ accepted =>
                  /\ resp[w].kind = "code" /\ resp[w].code = loc[w].token
                  /\ resp[w].code \in 1..Len(tokens)
                  /\ tokens[resp[w].code].type = Grant
                  /\ tokens[resp[w].code].user = r.username
                  /\ tokens[resp[w].code].challenge = r.challenge
                  /\ tokens[resp[w].code].scopes
                       = (IF r.scope = NULL THEN "private shared" ELSE r.scope)
                  /\ AppOf(applications, tokens[resp[w].code].application).client_id
                       = r.client_id
             /\ ~accepted =>
                  /\ resp[w].kind = "error" /\ resp[w].error = "access_denied"
                  /\ loc[w].token = NoRef

\* C9: POST /authorize with a registered client_id and no redirect_uri is answered
\* with a 302 to the application's registered redirect_uri; the worker does not
\* crash.
C9_MissingRedirectUriHandled ==
  \A w \in Workers :
    (/\ pc[w] \in {"responded", "crashed"} /\ IsAuthorizePost(req[w])
     /\ req[w].response_type = "code" /\ KnownClientId(req[w].client_id)
     /\ req[w].redirect_uri = NULL)
      => /\ pc[w] = "responded" /\ resp[w].status = 302
         /\ Registered(req[w].client_id, resp[w].uri)

C10_Expected(r) ==
  IF \/ r.client_id = NULL
     \/ r.response_type = NULL \/ r.response_type # "code"
     \/ (r.challenge_method # NULL /\ r.challenge_method # "S256")
     \/ ~KnownClientId(r.client_id)
    THEN 400 ELSE 200

C11_ExpiredGrantRemoved ==
  [][ \A w \in Workers :
        LET g == loc[w].grant
        IN  /\ (/\ pc[w] = "tok_check" /\ pc'[w] # "tok_check"
                /\ tokens[g].application = loc[w].app
                /\ tokens[g].expires <= now)
               => pc'[w] = "tok_expire"
            /\ (pc[w] = "tok_expire" /\ pc'[w] # "tok_expire")
               => /\ pc'[w] = "responded" /\ resp'[w].status = 400
                  /\ tokens' = tokens /\ g \notin live' ]_vars

\* C11, while the grant token is still in the store: what lines 898-905 of
\* do_token do when no other worker has removed the grant in between
C11_ExpiredGrantRemovedInStore ==
  [][ \A w \in Workers :
        LET g == loc[w].grant
        IN  /\ (/\ pc[w] = "tok_check" /\ pc'[w] # "tok_check"
                /\ g \in live
                /\ tokens[g].application = loc[w].app
                /\ tokens[g].expires <= now)
               => pc'[w] = "tok_expire"
            /\ (pc[w] = "tok_expire" /\ pc'[w] # "tok_expire" /\ g \in live)
               => /\ pc'[w] = "responded" /\ resp'[w].status = 400
                  /\ tokens' = tokens /\ g \notin live' ]_vars

C11_InStoreWitness ==
  \E w \in Workers :
    /\ pc[w] = "responded" /\ IsExchange(req[w]) /\ resp[w].status = 400
    /\ loc[w].grant # NoRef /\ loc[w].grant \notin live
    /\ tokens[loc[w].grant].expires <= now
    /\ tokens[loc[w].grant].application = loc[w].app
    /\ req[w].code \notin consumed

\* C12: an exchange whose grant token is bound to an application other than the
\* one resolved from the request's client_id and redirect_uri is answered 400
\* and creates no token.
C12_OtherApplicationRefused ==
  [][ \A w \in Workers :
        LET g == loc[w].grant
        IN  (/\ pc[w] = "tok_check" /\ pc'[w] # "tok_check"
             /\ tokens[g].application # loc[w].app)
            => /\ pc'[w] = "responded" /\ resp'[w].status = 400
               /\ tokens' = tokens /\ live' = live ]_vars

\* C12, while the grant token is still in the store: what lines 891-896 of
\* do_token do when no other worker has removed the grant in between
C12_OtherApplicationRefusedInStore ==
  [][ \A w \in Workers :
        LET g == loc[w].grant
        IN  (/\ pc[w] = "tok_check" /\ pc'[w] # "tok_check"
             /\ g \in live
             /\ tokens[g].application # loc[w].app)
            => /\ pc'[w] = "responded" /\ resp'[w].status = 400
               /\ tokens' = tokens /\ live' = live ]_vars

C12_InStoreWitness ==
  \E w \in Workers :
    /\ pc[w] = "responded" /\ IsExchange(req[w]) /\ resp[w].status = 400
    /\ loc[w].grant \in live
    /\ tokens[loc[w].grant].application # loc[w].app

IsPasswordGrant(r) == r.path = "/token" /\ r.grant_type = "password"

\* C13: POST /token with grant_type=password is answered 200 with a new access
\* token that has no application exactly when username and password are both
\* present and the Authenticator accepts them; otherwise it is answered 400 and
\* no token is created; the Authenticator is never called with a missing
\* username or a missing password.
C13_PasswordGrant ==
  \A w \in Workers :
    (pc[w] \in {"tok_create_pw", "responded", "crashed"} /\ IsPasswordGrant(req[w]))
      => LET r  == req[w]
             ok == /\ r.username # NULL /\ r.password # NULL
                   /\ moauthdAuthenticateUser(r.username, r.password)
         IN  /\ \A c \in authCalls[w] : c[1] # NULL /\ c[2] # NULL
             /\ pc[w] # "crashed"
             /\ pc[w] = "tok_create_pw" => ok
             /\ pc[w] = "responded" =>
                  /\ resp[w].status = (IF ok THEN 200 ELSE 400)
                  /\ ok => /\ resp[w].access_token = loc[w].token
                            /\ loc[w].token \in 1..Len(tokens)
                            /\ tokens[loc[w].token].type = Access
                            /\ tokens[loc[w].token].application = NoRef
                  /\ ~ok => loc[w].token = NoRef

IsIntrospect(r) == r.path = "/introspect" /\ r.method = "POST"

\* The caller of worker w's request may use /introspect: it is authenticated and,
\* when IntrospectGroup is configured, its account is a member of that group
MayIntrospect(w) ==
  /\ client[w].remote_user # ""
  /\ \/ server.introspect_group = NoGroup
     \/ server.introspect_group \in GroupsOf(client[w].remote_user)

\* C14: /introspect gives token data only to a caller that is authenticated and,
\* when IntrospectGroup is configured, a member of that group; an unauthenticated
\* caller is answered 401 and an authenticated non-member 403, and in both
\* cases no token is looked up.
C14_IntrospectCallers ==
  [][ \A w \in Workers :
        /\ (pc[w] = "introspect" /\ pc'[w] # "introspect" /\ ~MayIntrospect(w))
             => /\ pc'[w] = "responded"
                /\ resp'[w].status = (IF client[w].remote_user = "" THEN 401 ELSE 403)
                /\ resp'[w].kind = "none"
                /\ loc'[w] = loc[w]
        /\ (IsIntrospect(req[w]) /\ pc'[w] = "responded" /\ resp'[w].kind = "json")
             => MayIntrospect(w) ]_vars

\* C14 happens: an unauthenticated caller was answered 401, a non-member 403
\* and a member got the token data
C14_Witness ==
  /\ server.introspect_group = AliceGid
  /\ \E w \in Workers :
       /\ pc[w] = "responded" /\ IsIntrospect(req[w]) /\ resp[w].kind = "json"
       /\ AliceGid \in client[w].remote_groups

C14_NonMemberWitness ==
  \E w \in Workers :
    /\ pc[w] = "responded" /\ IsIntrospect(req[w]) /\ resp[w].status = 403
    /\ client[w].remote_user # "" /\ server.introspect_group = OtherGid
    /\ req[w].token \in live

\* C15: for a token in the store, a password-grant access token with no
\* application included, /introspect by an authorised caller answers 200 with
\* active = (expires > now), client_id = the application's client_id or "" when
\* there is none, and token_type = the token's kind.
C15_IntrospectEveryToken ==
  [][ \A w \in Workers :
        LET t == tokens[loc[w].token]
        IN  (/\ pc[w] = "introspect_read" /\ pc'[w] # "introspect_read"
             /\ loc[w].token \in live)
            => /\ pc'[w] = "responded"
               /\ resp'[w].status = 200
               /\ resp'[w].json.active = (t.expires > now)
               /\ resp'[w].json.client_id =
                    (IF t.application = NoRef THEN ""
                     ELSE AppOf(applications, t.application).client_id)
               /\ resp'[w].json.token_type = TypeName(t.type) ]_vars

\* C15 for the tokens that have an application
C15_IntrospectWithApplication ==
  [][ \A w \in Workers :
        LET t == tokens[loc[w].token]
        IN  (/\ pc[w] = "introspect_read" /\ pc'[w] # "introspect_read"
             /\ loc[w].token \in live /\ t.application # NoRef)
            => /\ pc'[w] = "responded"
               /\ resp'[w].status = 200
               /\ resp'[w].json.active = (t.expires > now)
               /\ resp'[w].json.client_id = AppOf(applications, t.application).client_id
               /\ resp'[w].json.token_type = TypeName(t.type) ]_vars

C15_ExpiredIntrospected ==
  \E w \in Workers :
    /\ pc[w] = "responded" /\ IsIntrospect(req[w]) /\ resp[w].kind = "json"
    /\ ~resp[w].json.active /\ loc[w].token \in live

\* Worker w answered 401 without attaching an identity
Refused401(w) ==
  /\ pc'[w] = "closing" /\ resp'[w].status = 401
  /\ client'[w].remote_user = "" /\ client'[w].remote_uid = NoUid

\* Worker w goes on to the handler with the identity of token b
AttachedFrom(w, b) ==
  /\ pc'[w] = Entry(req[w])
  /\ client'[w].remote_token = b
  /\ client'[w].remote_user = tokens[b].user
  /\ client'[w].remote_uid = UidOf(tokens[b].user)

\* C16: a request with Authorization: Bearer <id> gets an identity (remote_user,
\* remote_uid, remote_token) exactly when the store holds a token with that id
\* that is of kind access and has expires > now; an expired token is removed from
\* the store when it is seen; a token of another kind is treated as missing and
\* stays in the store.
C16_BearerIdentity ==
  [][ \A w \in Workers :
        LET b == loc[w].bearer
        IN  /\ (/\ pc[w] = "authorization" /\ pc'[w] # "authorization"
                /\ req[w].authorization.scheme = "Bearer"
                /\ req[w].authorization.id \notin live)
                => Refused401(w) /\ live' = live
            /\ (pc[w] = "bearer_check" /\ pc'[w] # "bearer_check")
                => IF b \in live /\ tokens[b].expires <= now
                     THEN pc'[w] = "bearer_remove"
                   ELSE IF b \in live /\ tokens[b].type = Access
                     THEN pc'[w] = "bearer_attach"
                   ELSE Refused401(w) /\ live' = live
            /\ (pc[w] = "bearer_remove" /\ pc'[w] # "bearer_remove")
                => Refused401(w) /\ live' = live \ {b}
            /\ (pc[w] = "bearer_attach" /\ pc'[w] # "bearer_attach")
                => IF b \in live THEN AttachedFrom(w, b) ELSE Refused401(w) ]_vars

\* C16, while the token found is still in the store: what lines 304-353 do when
\* no other worker has removed the token in between
C16_BearerIdentityInStore ==
  [][ \A w \in Workers :
        LET b == loc[w].bearer
        IN  /\ (/\ pc[w] = "authorization" /\ pc'[w] # "authorization"
                /\ req[w].authorization.scheme = "Bearer"
                /\ req[w].authorization.id \notin live)
                => Refused401(w) /\ live' = live
            /\ (pc[w] = "bearer_check" /\ pc'[w] # "bearer_check" /\ b \in live)
                => IF tokens[b].expires <= now THEN pc'[w] = "bearer_remove"
                   ELSE IF tokens[b].type = Access THEN pc'[w] = "bearer_attach"
                   ELSE Refused401(w) /\ live' = live
            /\ (pc[w] = "bearer_remove" /\ pc'[w] # "bearer_remove" /\ b \in live)
                => Refused401(w) /\ live' = live \ {b}
            /\ (pc[w] = "bearer_attach" /\ pc'[w] # "bearer_attach" /\ b \in live)
                => AttachedFrom(w, b) ]_vars

C16_InStoreWitness ==
  \E w \in Workers :
    /\ pc[w] = "responded" /\ req[w].authorization.scheme = "Bearer"
    /\ client[w].remote_token = req[w].authorization.id
    /\ client[w].remote_token \in live
    /\ tokens[client[w].remote_token].type = Access

C16_ExpiredRemovedWitness ==
  \E w \in Workers :
    /\ pc[w] = "closing" /\ req[w].authorization.scheme = "Bearer"
    /\ loc[w].bearer # NoRef /\ loc[w].bearer \notin live
    /\ tokens[loc[w].bearer].expires <= now /\ resp[w].status = 401

\* The Authorization: value of worker w's request has been processed
PastAuthorization(w) ==
  pc[w] \notin {"wait", "authorization", "bearer_check", "bearer_remove",
                "bearer_attach"}

\* C17: a request with a non-empty Authorization header that establishes no
\* identity is answered 401, whatever its path.
C17_NoIdentity401 ==
  \A w \in Workers :
    (/\ req[w].authorization.scheme # "" /\ HostOk(req[w].host)
     /\ PastAuthorization(w) /\ client[w].remote_user = "")
      => pc[w] = "closing" /\ resp[w].status = 401

\* C17, leaving out the requests that end in a crash
C17_NoIdentity401Answered ==
  \A w \in Workers :
    (/\ req[w].authorization.scheme # "" /\ HostOk(req[w].host)
     /\ PastAuthorization(w) /\ pc[w] # "crashed" /\ client[w].remote_user = "")
      => pc[w] = "closing" /\ resp[w].status = 401

C17_AnsweredWitness ==
  \E w1, w2 \in Workers :
    /\ pc[w1] = "closing" /\ pc[w2] = "closing"
    /\ resp[w1].status = 401 /\ resp[w2].status = 401
    /\ req[w1].authorization.scheme = "Basic" /\ req[w1].path = "/"
    /\ req[w2].authorization.scheme = "Bearer" /\ req[w2].path = "/token"

\* C18, as the code has it: a request whose Authorization header uses an
\* unsupported scheme gets no identity, is answered 401 and is not dispatched;
\* the connection is closed.
C18_UnsupportedSchemeRefused ==
  [][ \A w \in Workers :
        (/\ pc[w] = "authorization" /\ pc'[w] # "authorization"
         /\ req[w].authorization.scheme \notin {"Basic", "Bearer"})
        => Refused401(w) ]_vars

C18_Witness ==
  \E w \in Workers :
    /\ pc[w] = "closing" /\ req[w].authorization = Digest
    /\ req[w].path = "/" /\ resp[w].status = 401

\* C18 as stated: a request whose Authorization header uses an unsupported
\* scheme gets no identity and is still dispatched to its handler.
C18_UnsupportedSchemeDispatched ==
  [][ \A w \in Workers :
        (/\ pc[w] = "authorization" /\ pc'[w] # "authorization"
         /\ req[w].authorization.scheme \notin {"Basic", "Bearer"})
        => /\ pc'[w] = Entry(req[w])
           /\ client'[w].remote_user = "" ]_vars

\* C19: Basic credentials establish an identity only when the server was
\* configured with Option BasicAuth.
C19_BasicNeedsOption ==
  \A w \in Workers :
    (req[w].authorization.scheme = "Basic" /\ client[w].remote_user # "")
      => "BasicAuth" \in server.options

C19_WithOptionWitness ==
  \E w \in Workers :
    /\ req[w].authorization.scheme = "Basic" /\ client[w].remote_user # ""
    /\ "BasicAuth" \in server.options /\ pc[w] = "responded"

\* A Host: value as the claim reads it: the text after the last ':' is the port,
\* a decimal number (443 when there is no ':'), and the text before it, less one
\* trailing dot, is the name
AllDigits(s) == s # <<>> /\ \A i \in 1..Len(s) : IsDigit(s[i])

HostMatches(h) ==
  LET colons == { i \in 1..Len(h) : h[i] = ":" }
      colon  == IF colons = {} THEN Len(h) + 1
                ELSE CHOOSE i \in colons : \A j \in colons : j <= i
      port   == SubSeq(h, colon + 1, Len(h))
      dotted == SubSeq(h, 1, colon - 1)
      name   == IF dotted # <<>> /\ dotted[Len(dotted)] = "."
                  THEN SubSeq(dotted, 1, Len(dotted) - 1) ELSE dotted
  IN  /\ IF colons = {} THEN server.port = DefaultPort
         ELSE AllDigits(port) /\ atoi(port) = server.port
      /\ SameNoCase(name, server.name)

\* C20: a request is dispatched only if its Host header, after splitting off an
\* optional :port (443 when absent) and one trailing dot, equals the server name
\* case-insensitively and the port equals the configured port; otherwise the
\* answer is 400 and the connection is closed with no further request on it.
C20_HostChecked ==
  [][ \A w \in Workers :
        /\ (pc[w] = "wait" /\ pc'[w] # "wait" /\ ~HostMatches(req'[w].host))
             => pc'[w] = "closing" /\ resp'[w].status = 400
        /\ (pc[w] = "closing" /\ pc'[w] # "closing")
             => pc'[w] = "wait" /\ req'[w] = NoReq /\ client'[w] = NoClient ]_vars

\* C20 for the Host: values whose port, when there is one, is all digits
C20_HostCheckedDigits ==
  [][ \A w \in Workers :
        LET h     == req'[w].host
            colon == strrchr(h, ":")
        IN  /\ (/\ pc[w] = "wait" /\ pc'[w] # "wait" /\ ~HostMatches(h)
                /\ colon # 0 => AllDigits(SubSeq(h, colon + 1, Len(h))))
                => pc'[w] = "closing" /\ resp'[w].status = 400
            /\ (pc[w] = "closing" /\ pc'[w] # "closing")
                => pc'[w] = "wait" /\ req'[w] = NoReq /\ client'[w] = NoClient ]_vars

C20_DigitsWitness ==
  \E w \in Workers :
    /\ pc[w] = "responded" /\ req[w].host = <<"A", ".", ":", "4">>
    /\ resp[w].status = 200

C20_RefusedWitness ==
  \E w \in Workers :
    /\ pc[w] = "closing" /\ req[w].host = <<"a", ".", ".">>
    /\ resp[w].status = 400

\* The step in which worker w's handler reads the request body
\* (_moauthCopyMessageBody in do_authorize, do_introspect and do_token)
ReadsBody(w) ==
  pc[w] \in {"authorize_post", "introspect", "token"} /\ pc'[w] # pc[w]

\* C21: for every POST that carries an Expect header the interim answer is sent
\* before the request body is read: 100 for 100-continue, 417 for any other
\* expectation; it is sent before any other answer to the request.
C21_InterimBeforeBody ==
  [][ \A w \in Workers :
        /\ (ReadsBody(w) /\ req[w].expect # "")
             => resp[w].interim = (IF req[w].expect = "100-continue" THEN 100 ELSE 417)
        /\ resp'[w].interim # resp[w].interim
             => \/ resp'[w].interim = 0
                \/ /\ req[w].method = "POST" /\ req[w].expect # ""
                   /\ resp[w].status = 0 /\ resp'[w].status = 0 ]_vars

C21_Witness ==
  \E w1, w2 \in Workers :
    /\ pc[w1] = "responded" /\ req[w1].expect = "200-ok"
    /\ resp[w1].interim = 417 /\ resp[w1].status = 200 /\ req[w1].path = "/token"
    /\ pc[w2] = "responded" /\ req[w2].expect = "100-continue"
    /\ resp[w2].interim = 100 /\ req[w2].path = "/introspect"

\* The path of a request target: the target without its query
PathOf(p) ==
  IF \E i \in 1..Len(p) : p[i] = "?"
    THEN SubSeq(p, 1, (CHOOSE i \in 1..Len(p) :
                         p[i] = "?" /\ \A j \in 1..(i - 1) : p[j] # "?") - 1)
    ELSE p

\* The path has a parent-directory segment: "/../" somewhere, or "/.." at its end
HasTraversal(path) ==
  \E i \in 1..Len(path) :
    /\ i + 2 <= Len(path)
    /\ path[i] = "/" /\ path[i + 1] = "." /\ path[i + 2] = "."
    /\ (i + 2 = Len(path) \/ path[i + 3] = "/")

\* C22: no request whose path contains a parent-directory segment ("/../"
\* anywhere, or "/.." at the end) reaches a handler: it is answered 400.
C22_NoTraversal ==
  [][ \A w \in Workers :
        (pc[w] = "wait" /\ pc'[w] # "wait" /\ HasTraversal(PathOf(req'[w].path_info)))
        => pc'[w] = "closing" /\ resp'[w].status = 400 ]_vars

\* C22 for "/../" inside the path only
C22_NoTraversalInside ==
  [][ \A w \in Workers :
        LET path == PathOf(req'[w].path_info)
        IN  (/\ pc[w] = "wait" /\ pc'[w] # "wait"
             /\ \E i \in 1..(Len(path) - 3) :
                   SubSeq(path, i, i + 3) = <<"/", ".", ".", "/">>)
            => pc'[w] = "closing" /\ resp'[w].status = 400 ]_vars

C22_InsideWitness ==
  \E w \in Workers :
    /\ pc[w] = "closing" /\ resp[w].status = 400
    /\ req[w].path_info = <<"/", ".", ".", "/">>

\* Worker w's step calls moauthdDeleteToken or cupsArrayRemove
DeleteStep(w) ==
  /\ pc[w] \in {"tok_expire", "tok_delete", "bearer_remove"}
  /\ pc'[w] # pc[w]

\* The token that worker w's delete step is called on
DeleteTarget(w) == IF pc[w] = "bearer_remove" THEN loc[w].bearer ELSE loc[w].grant

\* C23: a token returned by Create stays findable under its id until Delete is
\* called on it or its expiry time is reached; no other operation of any worker
\* makes a live token unfindable.
C23_LiveStaysFindable ==
  [][ \A t \in live :
        /\ moauthdFindToken(t) = t
        /\ t \notin live'
             => \/ tokens[t].expires <= now
                \/ \E w \in Workers : DeleteStep(w) /\ DeleteTarget(w) = t ]_vars

\* C23 for the steps in which every delete is called on a token of the store
C23_LiveStaysFindableInStore ==
  [][ \A t \in live :
        (t \notin live' /\ \A w \in Workers : DeleteStep(w) => DeleteTarget(w) \in live)
          => \/ tokens[t].expires <= now
             \/ \E w \in Workers : DeleteStep(w) /\ DeleteTarget(w) = t ]_vars

C23_InStoreWitness ==
  \E w \in Workers :
    /\ pc[w] = "responded" /\ IsExchange(req[w]) /\ resp[w].status = 200
    /\ loc[w].grant \notin live /\ loc[w].token \in live
    /\ tokens[loc[w].grant].expires > now

\* C24: every token in the store expires after it was created, at its creation
\* time plus MaxGrantLife for a grant and MaxTokenLife for any other token, for
\* every lifetime value the configuration loader accepts
C24_LifetimePositive ==
  \A t \in live :
    /\ tokens[t].expires > tokens[t].created
    /\ tokens[t].expires = tokens[t].created +
         (IF tokens[t].type = Grant THEN server.max_grant_life
                                    ELSE server.max_token_life)

\* The number a value claims: its digits, times the unit that follows them
UnitSeconds(u) ==
  CASE u = "m" -> 60 [] u = "h" -> 3600 [] u = "d" -> 86400 [] u = "w" -> 604800
    [] OTHER -> 1

\* C25: a bare integer N is N seconds, N followed by m, h, d or w is N times
\* 60, 3600, 86400 or 604800, and either form is accepted by the loader
C25_GetSeconds ==
  boot.pc \in {"loaded", "failed"} /\ boot.value # <<>> =>
    LET value == boot.value
        front == SubSeq(value, 1, Len(value) - 1)
        last  == value[Len(value)]
    IN  /\ AllDigits(value) => boot.seconds = atoi(value) /\ boot.pc = "loaded"
        /\ AllDigits(front) /\ last \in {"m", "h", "d", "w"} =>
             boot.seconds = atoi(front) * UnitSeconds(last) /\ boot.pc = "loaded"

\* C25 for the values that end in a unit
C25_GetSecondsWithUnit ==
  boot.pc \in {"loaded", "failed"} /\ boot.value # <<>> =>
    LET value == boot.value
        front == SubSeq(value, 1, Len(value) - 1)
        last  == value[Len(value)]
    IN  AllDigits(front) /\ last \in {"m", "h", "d", "w"} =>
          boot.seconds = atoi(front) * UnitSeconds(last) /\ boot.pc = "loaded"

\* C26: at every step of a save the state file path holds the complete previous
\* state or the complete new state, and once a state file exists no step removes
\* or changes it and no start ends with a private key other than the one in it
C26_StateFileAtomic ==
  [][ /\ disk'.state # Truncated
      /\ disk.state # NoFile =>
           /\ disk'.state = disk.state
           /\ server'.private_key \in {NoKey, disk.state} ]_vars

\* C26 for a state file whose PrivateKey line is complete
C26_StateFileKept ==
  [][ disk.state \notin {NoFile, Truncated} =>
        /\ disk'.state = disk.state
        /\ server'.private_key \in {NoKey, disk.state} ]_vars

\* A restart has loaded the key that an earlier start generated and saved
C26_KeptWitness ==
  /\ boot.pc = "serving" /\ boot.runs > 1
  /\ disk.state = server.private_key /\ server.private_key # NoKey

\* The scopes of the resources in the registry
RegistryScopes == { server.resources[i].scope : i \in 1..Len(server.resources) }

\* C27: when the server starts serving, scopes_supported of the discovery
\* document holds "openid" and the scope of every resource in the registry,
\* configured and built-in, each once and nothing else
C27_ScopesSupported ==
  boot.pc = "serving" =>
    LET listed == server.metadata
    IN  /\ { listed[i] : i \in 1..Len(listed) } = {"openid"} \cup RegistryScopes
        /\ \A i, j \in 1..Len(listed) : listed[i] = listed[j] => i = j

\* C27 for the resources of the configuration file alone
C27_ScopesOfConfigured ==
  boot.pc = "serving" =>
    LET listed == server.metadata
        configured == { server.resources[i].scope :
                          i \in { k \in 1..Len(server.resources) :
                                    server.resources[k].type # "static" } }
    IN  /\ { listed[i] : i \in 1..Len(listed) } = {"openid"} \cup configured
        /\ \A i, j \in 1..Len(listed) : listed[i] = listed[j] => i = j

\* A well-formed https URI
WellFormedHttps(uri) == Len(uri) >= 3 /\ uri[1] = "https" /\ uri[2] = "://"

\* C28: moauthConnect returns a connection only if the metadata has both an
\* authorization_endpoint and a token_endpoint and every endpoint present among
\* the four is a well-formed https URI
C28_ConnectionNeedsEndpoints ==
  moauth.pc = "done" /\ moauth.connection =>
    /\ moauth.metadata.authorization_endpoint # NULL
    /\ moauth.metadata.token_endpoint # NULL
    /\ \A i \in 1..4 :
         moauth.metadata[EndpointNames[i]] # NULL =>
           WellFormedHttps(moauth.metadata[EndpointNames[i]])

\* A connection was returned for metadata with three of the four endpoints
C28_Witness ==
  /\ moauth.pc = "done" /\ moauth.connection
  /\ moauth.metadata.introspection_endpoint # NULL
  /\ moauth.metadata.registration_endpoint = NULL

\* The fetches are over
Fetched == moauth.pc \in {"parse", "done"} /\ moauth.resource # NULL

\* C29: for the path "/" the RFC 8414 document is requested first, the OpenID
\* configuration only if that yielded no document, and the path itself only if
\* both yielded none; for any other path only that path is requested
C29_DiscoveryOrder ==
  LET rq == moauth.requests
      yd == moauth.yields
      order == IF moauth.resource = "/"
               THEN <<WellKnownRfc8414, WellKnownOpenId, "/">>
               ELSE <<moauth.resource>>
  IN  /\ Len(rq) <= Len(order)
      /\ \A i \in 1..Len(rq) : rq[i] = order[i]
      /\ \A i \in 1..Len(rq) : \A j \in 1..(i - 1) : ~yd[j]
      /\ Fetched => /\ rq # <<>>
                    /\ ~yd[Len(rq)] => Len(rq) = Len(order)

\* All three documents were requested, in order
C29_Witness ==
  /\ moauth.pc = "done"
  /\ moauth.requests = <<WellKnownRfc8414, WellKnownOpenId, "/">>

\* A JSON body whose endpoints let a text/json answer become a connection
ValidBody(body) ==
  /\ body.json
  /\ body.authorization_endpoint # NULL /\ body.token_endpoint # NULL
  /\ \A i \in 1..4 : body[EndpointNames[i]] # NULL =>
                         WellFormedHttps(body[EndpointNames[i]])

\* C30: a valid body sent as application/json gives the connection, with the
\* same endpoints, that it gives as text/json
C30_ApplicationJson ==
  /\ moauth.pc = "done"
  /\ moauth.content_type \in {"application/json", "text/json"}
  /\ ValidBody(moauth.body)
  => /\ moauth.connection
     /\ \A i \in 1..4 : moauth.server[EndpointNames[i]] = moauth.body[EndpointNames[i]]

\* C30 for text/json alone
C30_TextJson ==
  /\ moauth.pc = "done"
  /\ moauth.content_type = "text/json"
  /\ ValidBody(moauth.body)
  => /\ moauth.connection
     /\ \A i \in 1..4 : moauth.server[EndpointNames[i]] = moauth.body[EndpointNames[i]]

\* C31: moauthAuthorize returns 1 if and only if the handler was started and
\* exited with status 0; every failure to start it or to wait for it and every
\* other exit status gives 0 with the error string set
C31_AuthorizeStatus ==
  moauth.pc = "authorized" /\ moauth.code_challenge # NULL =>
    LET ranOk == moauth.spawned /\ moauth.waited = Pid /\ moauth.estatus = 0
    IN  /\ moauth.status = 1 <=> ranOk
        /\ ~ranOk => moauth.error # ""

\* C31 for the failures alone
C31_AuthorizeFailures ==
  moauth.pc = "authorized" /\ moauth.code_challenge # NULL =>
    LET ranOk == moauth.spawned /\ moauth.waited = Pid /\ moauth.estatus = 0
    IN  ~ranOk => moauth.status = 0 /\ moauth.error # ""

\* C32: the code_challenge moauthAuthorize derives from a code_verifier v is the
\* value do_token recomputes from code_verifier=v: when do_token checks an
\* exchange of a grant obtained through the helper, the exchange goes on to
\* issue the access token if the request's code_verifier is v, and is answered
\* 400 if the request's code_verifier has another digest or is missing
C32_HelperChallenge ==
  [][ \A w \in Workers :
        LET g == loc[w].grant
        IN  (/\ pc[w] = "tok_check" /\ pc'[w] # "tok_check"
             /\ moauth.code_verifier # NULL
             /\ tokens[g].type = Grant
             /\ tokens[g].challenge = moauth.code_challenge
             /\ tokens[g].application = loc[w].app
             /\ tokens[g].expires > now)
            => /\ req[w].verifier = moauth.code_verifier => pc'[w] = "tok_create"
               /\ (\/ req[w].verifier = NULL
                   \/ S256(req[w].verifier) # S256(moauth.code_verifier))
                  => pc'[w] = "responded" /\ resp'[w].status = 400 ]_vars

\* C32, while the grant token is still in the store at the check
C32_HelperChallengeInStore ==
  [][ \A w \in Workers :
        LET g == loc[w].grant
        IN  (/\ pc[w] = "tok_check" /\ pc'[w] # "tok_check"
             /\ g \in live
             /\ moauth.code_verifier # NULL
             /\ tokens[g].type = Grant
             /\ tokens[g].challenge = moauth.code_challenge
             /\ tokens[g].application = loc[w].app
             /\ tokens[g].expires > now)
            => /\ req[w].verifier = moauth.code_verifier => pc'[w] = "tok_create"
               /\ (\/ req[w].verifier = NULL
                   \/ S256(req[w].verifier) # S256(moauth.code_verifier))
                  => pc'[w] = "responded" /\ resp'[w].status = 400 ]_vars

C32_InStoreWitness ==
  \E w1, w2 \in Workers :
    /\ moauth.code_verifier = V2
    /\ pc[w1] = "tok_create" /\ loc[w1].grant \in live
    /\ tokens[loc[w1].grant].challenge = S256(V2) /\ req[w1].verifier = V2
    /\ pc[w2] = "responded" /\ loc[w2].grant = loc[w1].grant
    /\ req[w2].verifier = V1 /\ resp[w2].status = 400

\* The main thread is inside a call that returns only when one particular
\* client sends data or that client's timeout runs out
WaitsOnClient == boot.loop = "tls" /\ ~boot.hello

\* C33: the accept loop blocks only on poll: while the main thread accepts a
\* connection and establishes its TLS session it never waits on that client
C33_LoopBlocksOnlyOnPoll ==
  boot.pc = "serving" /\ boot.loop # "poll" => ~WaitsOnClient

\* C34: what fails inside one worker, in an accept or in the creation of a
\* worker thread never terminates the accept loop or the other workers: the
\* process is alive and the main thread is inside its loop
C34_FailuresContained ==
  boot.pc = "serving" => ~crashed /\ boot.loop # "exited"

\* C34 for the main thread's own failures: a failed calloc, accept, handshake
\* or thread creation takes the loop back to poll
C34_AcceptFailuresContained ==
  [][ (/\ boot.loop \in {"accept", "tls", "thread"}
       /\ boot'.loop \notin {boot.loop, "tls", "thread"})
      => boot'.loop = "poll" /\ crashed' = crashed /\ pc' = pc ]_vars

\* C35: no worker reads or removes a token through the reference it got from
\* moauthdFindToken after another worker removed that token: every step of
\* do_token and of the Bearer branch that uses the reference finds the token
\* still in the store, so a token is removed once and never used afterwards
C35_NoUseAfterRemoval ==
  [][ \A w \in Workers :
        /\ (pc[w] \in {"tok_check", "tok_expire", "tok_delete"} /\ pc'[w] # pc[w])
             => loc[w].grant \in live
        /\ (pc[w] \in {"bearer_check", "bearer_remove", "bearer_attach"}
               /\ pc'[w] # pc[w])
             => loc[w].bearer \in live ]_vars

\* C36: the authorization_code grant goes on to create an access token only
\* when `code` names a token of kind grant: an exchange whose code is the id of
\* a token of another kind that is in the store is answered 400, creates no
\* token and removes none
C36_CodeMustBeGrant ==
  [][ \A w \in Workers :
        LET g == loc[w].grant
        IN  (/\ pc[w] = "tok_check" /\ pc'[w] # "tok_check"
             /\ g \in live
             /\ tokens[g].type # Grant)
            => /\ pc'[w] = "responded" /\ resp'[w].status = 400
               /\ tokens' = tokens /\ live' = live ]_vars

\* C36 for the tokens an exchange removes: only grants
C36_OnlyGrantsConsumed ==
  [][ \A w \in Workers :
        (pc[w] = "tok_delete" /\ pc'[w] # "tok_delete" /\ loc[w].grant \in live)
          => tokens[loc[w].grant].type = Grant ]_vars

\* A request with an unknown method or HTTP version, a bad URI, unreadable
\* headers or a bad Host: value
Rejected(r) ==
  \/ r.request_line \in {"UNKNOWN_METHOD", "UNKNOWN_VERSION"}
  \/ ~PathOk(r.path_info, r.method)
  \/ ~r.headers
  \/ ~HostOk(r.host)

\* C39: a request rejected in preflight is answered 400 in the step that reads
\* it: the Authenticator is not invoked for it, the token store is neither read
\* nor modified, and no worker is ever at the Authorization: value of such a
\* request
C39_PreflightBeforeAuthentication ==
  [][ \A w \in Workers :
        /\ (pc[w] = "wait" /\ pc'[w] # "wait" /\ Rejected(req'[w]))
             => /\ pc'[w] = "closing" /\ resp'[w].status = 400
                /\ authCalls' = authCalls /\ tokens' = tokens /\ live' = live
                /\ loc' = loc /\ client' = client
        /\ pc'[w] \in {"authorization", "bearer_check", "bearer_attach", "get_file"}
             => ~Rejected(req'[w]) ]_vars

C39_Witness ==
  \E w \in Workers :
    /\ pc[w] = "closing" /\ Rejected(req[w]) /\ resp[w].status = 400
    /\ req[w].host = BadHost
    /\ req[w].authorization.scheme = "Bearer" /\ req[w].authorization.id \in live
    /\ authCalls[w] = {} /\ loc[w] = NoLoc /\ client[w].remote_token = NoRef

\* The positions of a worker whose request has been handed to its handler
Dispatched ==
  {"expect", "authorize_get", "authorize_post", "introspect", "get_file", "token"}

\* C37: when a request is dispatched, client->remote_token is non-null only if
\* that request's own Authorization: value was the Bearer token it points to,
\* and a request without Authorization: value has no identity field left from
\* an earlier request of the connection
C37_IdentityIsOwn ==
  \A w \in Workers :
    pc[w] \in Dispatched =>
      /\ client[w].remote_token # NoRef
           => req[w].authorization = Bearer(client[w].remote_token)
      /\ req[w].authorization.scheme = ""
           => /\ client[w].remote_user = "" /\ client[w].remote_uid = NoUid
              /\ client[w].remote_groups = {}

\* C37 for the two fields moauthdRunClient clears before each request
C37_UserAndUidAreOwn ==
  \A w \in Workers :
    pc[w] \in Dispatched /\ req[w].authorization.scheme = ""
      => client[w].remote_user = "" /\ client[w].remote_uid = NoUid

\* The final (non-1xx) answers sent so far to the request worker w has read:
\* the 417 of moauthdRunClient and the answer of the handler
FinalResponses(w) ==
  (IF resp[w].interim >= 200 THEN 1 ELSE 0) + (IF resp[w].status # 0 THEN 1 ELSE 0)

\* C38: every request read receives exactly one final response: at no time has
\* a request been answered twice, and a request whose handling has ended has
\* been answered
C38_OneFinalResponse ==
  \A w \in Workers :
    /\ FinalResponses(w) <= 1
    /\ pc[w] = "responded" => FinalResponses(w) = 1

\* C38 for the requests that carry no expectation other than 100-continue
C38_OneFinalResponseNo417 ==
  \A w \in Workers :
    req[w].expect \in {"", "100-continue"} =>
      /\ FinalResponses(w) <= 1
      /\ pc[w] = "responded" => FinalResponses(w) = 1

\* C40: a grant created for a POST /authorize that carries a code_challenge is
\* never in the store, where other workers find it, without that challenge
C40_ChallengeWithGrant ==
  \A w \in Workers :
    (/\ IsAuthorizePost(req[w]) /\ req[w].challenge # NULL
     /\ loc[w].token # NoRef /\ loc[w].token \in live)
      => tokens[loc[w].token].challenge = req[w].challenge

\* C40 for the exchange: while the worker that created such a grant has not
\* answered yet, an exchange of the grant without code_verifier is answered 400
C40_NoExchangeWithoutVerifier ==
  [][ \A w, c \in Workers :
        LET g == loc[w].grant
        IN  (/\ pc[w] = "tok_check" /\ pc'[w] # "tok_check"
             /\ g \in live /\ req[w].verifier = NULL
             /\ tokens[g].application = loc[w].app /\ tokens[g].expires > now
             /\ pc[c] = "auth_challenge" /\ loc[c].token = g
             /\ req[c].challenge # NULL)
            => pc'[w] = "responded" /\ resp'[w].status = 400 ]_vars

====
